---- MODULE Spec2Model ----
(***************************************************************************)
(* TubeRun download queue and retry engine.                                *)
(*                                                                         *)
(* The model follows three source units:                                   *)
(*   - DownloadQueueManager (downloadQueue.ts, kept in unnamed/part_007)   *)
(*   - the main-process IPC handlers (index.ts, kept in unnamed/part_007)  *)
(*   - the downloader service (src/main/services/downloader.ts)            *)
(*                                                                         *)
(* All JavaScript here runs on one event loop.  One TLA+ action is one     *)
(* event-loop task: an IPC handler, a child-process event handler or a     *)
(* timer callback, together with the promise continuations it triggers.    *)
(***************************************************************************)
EXTENDS Integers, Sequences, FiniteSets, TLC

(***************************************************************************)
(* Bounds of the model.                                                    *)
(***************************************************************************)
MaxJobs == 3                \* ids ever submitted
MaxConcurrentBound == 2     \* largest maxConcurrent explored
MaxRetriesBound == 2        \* largest maxRetries explored
MaxData == 1                \* progress lines parsed per extraction process
PipelineJobs == 1           \* ids submitted where every pipeline step is explored

(***************************************************************************)
(* Program constants.                                                      *)
(***************************************************************************)
RetryDelayBase == 1000      \* DEFAULT_CONFIG.retryDelayBase (ms)
DefaultTimeout == 300000    \* DEFAULT_CONFIG.downloadTimeout (ms)

Ids == 1..MaxJobs
NoId == 0
NoMsg == "-"

Priorities == {0, 5}
Speeds == {1, 2}            \* options.speed: 1 = no transcode, 2 = transcode

VARIABLES
  config,               \* DownloadQueueManager.config
  downloadFn,           \* DownloadQueueManager.downloadFn is set
  download,             \* the QueuedDownload objects ever created, by id
  queue,                \* keys of DownloadQueueManager.queue (Map id -> object)
  activeDownloads,      \* DownloadQueueManager.activeDownloads
  cleanupTimers,        \* DownloadQueueManager.cleanupTimers (pending timers)
  now,                  \* last value returned by Date.now()
  created,              \* number of ids handed out by crypto.randomUUID()
  pipe,                 \* per id: the executeDownloadWithRetry invocation
  att,                  \* per id: the executeDownload closures, one per attempt
  activeProcesses,      \* downloader.activeProcesses: id -> attempt owning the process
  activeFFmpegCommands, \* downloader.activeFFmpegCommands: id -> attempt
  processedDownloads,   \* downloader.processedDownloads
  historyCalls,         \* per id: number of addToHistory calls
  events,               \* per id: what was emitted while a window is attached
  admissions,           \* queued -> active transitions, in order
  window,               \* DownloadQueueManager.window is set and not destroyed
  settings,             \* settingsStore 'downloads' (settings.ts)
  input,                \* the call under observation: operation and arguments
  output                \* what that call returned, threw or passed on

vars == <<config, downloadFn, download, queue, activeDownloads, cleanupTimers,
          now, created, pipe, att, activeProcesses, activeFFmpegCommands,
          processedDownloads, historyCalls, events, admissions, window,
          settings, input, output>>

(***************************************************************************)
(* The whole state as one record, so that a handler is a function from     *)
(* state to state and helpers compose the way the calls do.  The field ret *)
(* is the value the handler returns to its caller; it is not state.        *)
(***************************************************************************)
St ==
  [config |-> config, downloadFn |-> downloadFn, download |-> download,
   queue |-> queue, activeDownloads |-> activeDownloads,
   cleanupTimers |-> cleanupTimers, now |-> now, created |-> created,
   pipe |-> pipe, att |-> att, activeProcesses |-> activeProcesses,
   activeFFmpegCommands |-> activeFFmpegCommands,
   processedDownloads |-> processedDownloads, historyCalls |-> historyCalls,
   events |-> events, admissions |-> admissions, window |-> window,
   settings |-> settings, input |-> input, output |-> output,
   ret |-> FALSE]

Commit(s) ==
  /\ config' = s.config
  /\ downloadFn' = s.downloadFn
  /\ download' = s.download
  /\ queue' = s.queue
  /\ activeDownloads' = s.activeDownloads
  /\ cleanupTimers' = s.cleanupTimers
  /\ now' = s.now
  /\ created' = s.created
  /\ pipe' = s.pipe
  /\ att' = s.att
  /\ activeProcesses' = s.activeProcesses
  /\ activeFFmpegCommands' = s.activeFFmpegCommands
  /\ processedDownloads' = s.processedDownloads
  /\ historyCalls' = s.historyCalls
  /\ events' = s.events
  /\ admissions' = s.admissions
  /\ window' = s.window
  /\ settings' = s.settings
  /\ input' = s.input
  /\ output' = s.output

(***************************************************************************)
(* JavaScript values that cross the IPC boundary.                          *)
(*                                                                         *)
(* A value is a record [k, v, s]: k is its kind, v the magnitude of a      *)
(* number counted in hundredths (so 1.5 is 150), s the characters of a     *)
(* string.  NaN is a value of type number without a magnitude.             *)
(***************************************************************************)
Undefined == [k |-> "undefined", v |-> 0, s |-> ""]
NaN == [k |-> "NaN", v |-> 0, s |-> ""]
Num(h) == [k |-> "number", v |-> h, s |-> ""]
Whole(n) == Num(n * 100)
Str(t) == [k |-> "string", v |-> 0, s |-> t]
Bool(b) == [k |-> "boolean", v |-> IF b THEN 100 ELSE 0, s |-> ""]

\* typeof x === 'number'
IsNumber(x) == x.k \in {"number", "NaN"}

\* Boolean(x)
Truthy(x) ==
  CASE x.k = "boolean" -> x.v # 0
    [] x.k = "number" -> x.v # 0
    [] x.k = "string" -> x.s # ""
    [] OTHER -> FALSE

\* a < b and a <= b: false when either side is NaN or not a number
Less(a, b) == a.k = "number" /\ b.k = "number" /\ a.v < b.v
LessEq(a, b) == a.k = "number" /\ b.k = "number" /\ a.v <= b.v

\* characters String.prototype.trim removes, as far as the texts here hold them
Whitespace == {" ", "\t", "\n"}

RECURSIVE TrimStart(_)
TrimStart(t) ==
  IF t # "" /\ SubSeq(t, 1, 1) \in Whitespace THEN TrimStart(Tail(t)) ELSE t

RECURSIVE TrimEnd(_)
TrimEnd(t) ==
  IF t # "" /\ SubSeq(t, Len(t), Len(t)) \in Whitespace
  THEN TrimEnd(SubSeq(t, 1, Len(t) - 1))
  ELSE t

\* (as Trim, but nothing is removed)
TrimMutant(t) == t

\* String.prototype.trim
Trim(t) == TrimEnd(TrimStart(t))

\* the integer a whole number stands for
ToInt(x) == x.v \div 100

\* Math.round: the nearest integer, halves upwards; NaN stays NaN.  The
\* values it is applied to here are of type number.
MathRound(x) ==
  IF x.k = "number" THEN Num(((x.v + 50) \div 100) * 100) ELSE NaN

\* Math.min, Math.max: NaN if either argument is NaN
MathMin(a, b) ==
  IF a.k # "number" \/ b.k # "number" THEN NaN
  ELSE IF a.v <= b.v THEN a ELSE b

MathMax(a, b) ==
  IF a.k # "number" \/ b.k # "number" THEN NaN
  ELSE IF a.v >= b.v THEN a ELSE b

(***************************************************************************)
(* Settings store (settings.ts).                                           *)
(***************************************************************************)
SettingsFields ==
  {"maxConcurrentDownloads", "maxRetries", "downloadTimeout",
   "bandwidthLimit", "autoRetry"}

\* clamp(value, min, max) = Math.max(min, Math.min(max, value))
clamp(value, min, max) == MathMax(min, MathMin(max, value))

\* validateSettings: a field of the result is Undefined when the update does
\* not carry it
validateSettings(partial) ==
  [maxConcurrentDownloads |->
     IF partial.maxConcurrentDownloads # Undefined
     THEN clamp(MathRound(partial.maxConcurrentDownloads), Whole(1), Whole(5))
     ELSE Undefined,
   maxRetries |->
     IF partial.maxRetries # Undefined
     THEN clamp(MathRound(partial.maxRetries), Whole(0), Whole(10))
     ELSE Undefined,
   downloadTimeout |->
     IF partial.downloadTimeout # Undefined
     THEN clamp(MathRound(partial.downloadTimeout), Whole(60), Whole(600))
     ELSE Undefined,
   bandwidthLimit |->
     IF partial.bandwidthLimit # Undefined
     THEN clamp(MathRound(partial.bandwidthLimit), Whole(0), Whole(100000))
     ELSE Undefined,
   autoRetry |->
     IF partial.autoRetry # Undefined
     THEN Bool(Truthy(partial.autoRetry))
     ELSE Undefined]

\* updateDownloadSettings: {...current, ...validated} is stored and returned
updateDownloadSettings(s, partial) ==
  LET validated == validateSettings(partial)
      updated == [f \in SettingsFields |->
                    IF validated[f] # Undefined THEN validated[f]
                    ELSE s.settings[f]]
  IN [s EXCEPT !.settings = updated, !.ret = updated]

\* (as QueueConfig, but autoRetry is not consulted)
QueueConfigMutant(stored) ==
  [maxConcurrent |-> ToInt(stored.maxConcurrentDownloads),
   maxRetries |-> ToInt(stored.maxRetries),
   downloadTimeout |-> ToInt(stored.downloadTimeout) * 1000]

\* the configuration the main process hands to queue.updateConfig
QueueConfig(stored) ==
  [maxConcurrent |-> ToInt(stored.maxConcurrentDownloads),
   maxRetries |-> IF Truthy(stored.autoRetry) THEN ToInt(stored.maxRetries)
                  ELSE 0,
   downloadTimeout |-> ToInt(stored.downloadTimeout) * 1000]

\* a store from which createWindow configures the queue as config
StoreFor(cfg) ==
  [maxConcurrentDownloads |-> Whole(cfg.maxConcurrent),
   maxRetries |-> Whole(cfg.maxRetries),
   downloadTimeout |-> Whole(cfg.downloadTimeout \div 1000),
   bandwidthLimit |-> Whole(0),
   autoRetry |-> Bool(TRUE)]

\* no call is under observation
NoCall == [op |-> "none", arg |-> 0]

\* a call: the operation and its arguments, or its outcome
Call(op, arg) == [op |-> op, arg |-> arg]

(***************************************************************************)
(* Strings.  A string is a TLA+ string; the character at position i of t   *)
(* is SubSeq(t, i, i).                                                     *)
(***************************************************************************)
UpperLetters == "ABCDEFGHIJKLMNOPQRSTUVWXYZ"
LowerLetters == "abcdefghijklmnopqrstuvwxyz"

\* each upper-case letter's lower-case letter, and the other way round
LowerOf ==
  [c \in {SubSeq(UpperLetters, i, i) : i \in 1..Len(UpperLetters)} |->
     LET i == CHOOSE i \in 1..Len(UpperLetters) : SubSeq(UpperLetters, i, i) = c
     IN SubSeq(LowerLetters, i, i)]

UpperOf ==
  [c \in {SubSeq(LowerLetters, i, i) : i \in 1..Len(LowerLetters)} |->
     LET i == CHOOSE i \in 1..Len(LowerLetters) : SubSeq(LowerLetters, i, i) = c
     IN SubSeq(UpperLetters, i, i)]

\* t with its letters in lower case, as the i flag of an expression sees
\* it (the text is converted half by half)
RECURSIVE Lower(_)
Lower(t) ==
  IF Len(t) = 0 THEN ""
  ELSE IF Len(t) = 1 THEN (IF t \in DOMAIN LowerOf THEN LowerOf[t] ELSE t)
  ELSE Lower(SubSeq(t, 1, Len(t) \div 2))
         \o Lower(SubSeq(t, Len(t) \div 2 + 1, Len(t)))

RECURSIVE Upper(_)
Upper(t) ==
  IF Len(t) = 0 THEN ""
  ELSE IF Len(t) = 1 THEN (IF t \in DOMAIN UpperOf THEN UpperOf[t] ELSE t)
  ELSE Upper(SubSeq(t, 1, Len(t) \div 2))
         \o Upper(SubSeq(t, Len(t) \div 2 + 1, Len(t)))

\* t holds the characters of part, in a row, somewhere
Contains(t, part) ==
  \E i \in 1..(Len(t) - Len(part) + 1) : SubSeq(t, i, i + Len(part) - 1) = part

\* t holds the characters of part from position i on
At(t, i, part) ==
  i + Len(part) - 1 <= Len(t) /\ SubSeq(t, i, i + Len(part) - 1) = part

\* the first position from i on that holds no white space
RECURSIVE SkipSpaces(_, _)
SkipSpaces(t, i) ==
  IF i <= Len(t) /\ SubSeq(t, i, i) \in {" ", "\t", "\n", "\r", "\f"}
  THEN SkipSpaces(t, i + 1) ELSE i

(***************************************************************************)
(* Error classifier (downloader.ts classifyError).                         *)
(*                                                                         *)
(* An error text is a record [raw, hits]: raw holds the characters, hits   *)
(* is the set of rows of the pattern table whose regular expression        *)
(* matches them (ErrorText computes it).                                   *)
(***************************************************************************)
\* (as Patterns, but a cancellation is retryable)
PatternsMutant ==
  << [type |-> "video_not_found", retryable |-> FALSE,
      userMessage |-> "This video is not available or may have been removed"],
     [type |-> "video_private", retryable |-> FALSE,
      userMessage |-> "This video is private"],
     [type |-> "age_restricted", retryable |-> FALSE,
      userMessage |-> "This video is age-restricted and cannot be downloaded"],
     [type |-> "rate_limited", retryable |-> TRUE,
      userMessage |-> "YouTube is rate limiting requests. Please try again later"],
     [type |-> "disk_full", retryable |-> FALSE,
      userMessage |-> "Not enough disk space to complete download"],
     [type |-> "timeout", retryable |-> TRUE,
      userMessage |-> "The download timed out. Please check your connection and try again"],
     [type |-> "network", retryable |-> TRUE,
      userMessage |-> "Network error. Please check your connection and try again"],
     [type |-> "cancelled", retryable |-> TRUE,
      userMessage |-> "Download was cancelled"],
     [type |-> "ffmpeg_error", retryable |-> FALSE,
      userMessage |-> "Audio conversion failed"] >>

Patterns ==
  << [type |-> "video_not_found", retryable |-> FALSE,
      userMessage |-> "This video is not available or may have been removed"],
     [type |-> "video_private", retryable |-> FALSE,
      userMessage |-> "This video is private"],
     [type |-> "age_restricted", retryable |-> FALSE,
      userMessage |-> "This video is age-restricted and cannot be downloaded"],
     [type |-> "rate_limited", retryable |-> TRUE,
      userMessage |-> "YouTube is rate limiting requests. Please try again later"],
     [type |-> "disk_full", retryable |-> FALSE,
      userMessage |-> "Not enough disk space to complete download"],
     [type |-> "timeout", retryable |-> TRUE,
      userMessage |-> "The download timed out. Please check your connection and try again"],
     [type |-> "network", retryable |-> TRUE,
      userMessage |-> "Network error. Please check your connection and try again"],
     [type |-> "cancelled", retryable |-> FALSE,
      userMessage |-> "Download was cancelled"],
     [type |-> "ffmpeg_error", retryable |-> FALSE,
      userMessage |-> "Audio conversion failed"] >>

Text(raw, hits) == [raw |-> raw, hits |-> hits]

\* /rate.?limit/ on a text in lower case: rate, at most one character that
\* is no line end, limit
RateLimit(t) ==
  \E i \in 1..Len(t) :
    /\ At(t, i, "rate")
    /\ \/ At(t, i + 4, "limit")
       \/ /\ i + 4 <= Len(t)
          /\ SubSeq(t, i + 4, i + 4) \notin {"\n", "\r"}
          /\ At(t, i + 5, "limit")

\* /timed?\s*out/ on a text in lower case
TimedOut(t) ==
  \E i \in 1..Len(t) :
    /\ At(t, i, "time")
    /\ \/ At(t, SkipSpaces(t, i + 4), "out")
       \/ At(t, i + 4, "d") /\ At(t, SkipSpaces(t, i + 5), "out")

\* pattern.test(error) for the row-th expression of the table
Matches(row, error) ==
  LET t == Lower(error) IN
  CASE row = 1 -> \/ Contains(t, "video unavailable")
                  \/ Contains(t, "not available")
                  \/ Contains(t, "this video is unavailable")
    [] row = 2 -> Contains(t, "private video") \/ Contains(t, "video is private")
    [] row = 3 -> \/ Contains(t, "sign in to confirm your age")
                  \/ Contains(t, "age-restricted")
    [] row = 4 -> \/ Contains(t, "429")
                  \/ Contains(t, "too many requests")
                  \/ RateLimit(t)
    [] row = 5 -> \/ Contains(t, "no space left")
                  \/ Contains(t, "enospc")
                  \/ Contains(t, "disk full")
    [] row = 6 -> \/ TimedOut(t)
                  \/ Contains(t, "etimedout")
                  \/ Contains(t, "esockettimedout")
    [] row = 7 -> \/ Contains(t, "network")
                  \/ Contains(t, "econnreset")
                  \/ Contains(t, "econnrefused")
                  \/ Contains(t, "enotfound")
                  \/ Contains(t, "socket hang up")
    [] row = 8 -> \/ Contains(t, "cancelled")
                  \/ Contains(t, "aborted")
                  \/ Contains(t, "sigterm")
                  \/ Contains(t, "sigkill")
    [] row = 9 -> \/ Contains(t, "ffmpeg")
                  \/ Contains(t, "encoding")
                  \/ Contains(t, "conversion")

\* the error text with these characters
ErrorText(raw) == Text(raw, {row \in 1..9 : Matches(row, raw)})

SetMin(S) == CHOOSE x \in S : \A y \in S : x <= y

\* for (const [pattern, ...] of patterns) if (pattern.test(error)) return ...
FirstMatch(hits) == SetMin(hits)

classifyError(error) ==
  IF error.hits \cap (1..Len(Patterns)) = {}
  THEN [type |-> "unknown",
        userMessage |-> IF Len(error.raw) > 200
                        THEN SubSeq(error.raw, 1, 200) \o "..."
                        ELSE error.raw,
        retryable |-> FALSE]
  ELSE Patterns[FirstMatch(error.hits \cap (1..Len(Patterns)))]

\* What the extractor wrote to stderr before it failed (an input).
StderrTexts ==
  { ErrorText("ERROR: Private video"),
    ErrorText("ECONNRESET"),
    ErrorText("") }

\* What fluent-ffmpeg reports when the transcode fails (an input).
FfmpegTexts == { ErrorText("ffmpeg exited with code 1") }

\* `${operation} timed out after ${Math.round(timeoutMs / 1000)}s`
TimedOutText(timeoutMs) ==
  ErrorText("Download timed out after "
              \o ToString((timeoutMs + 500) \div 1000) \o "s")

\* prefix + err.message: none of the prefixes used matches a pattern
Wrap(prefix, t) == Text(prefix \o t.raw, t.hits)

\* infoError || 'Failed to get video info',  downloadError || 'Download failed'
OrDefault(t, dflt) == IF t.raw = "" THEN Text(dflt, {}) ELSE t

(***************************************************************************)
(* Records.                                                                *)
(***************************************************************************)
NoDownload ==
  [status |-> "none", retryCount |-> 0, maxRetries |-> 0, addedAt |-> 0,
   priority |-> 0, speed |-> 1, error |-> NoMsg]

\* One executeDownloadWithRetry invocation.
\*   loop     none | run (awaiting the attempt) | sleep (awaiting the back-off)
\*            | resolved | rejected
\*   attempt  the loop variable
\*   maxRetries, retryDelayBase, timeout   the config argument
\*   sleeps   the delays handed to setTimeout by sleepWithJitter, in order
\*   thrown   the message of the Error the invocation rejected with
NoPipe ==
  [loop |-> "none", attempt |-> 0, maxRetries |-> 0, retryDelayBase |-> 0,
   timeout |-> 0, sleeps |-> << >>, thrown |-> NoMsg]

NoFailure == [type |-> "none", userMessage |-> NoMsg, retryable |-> FALSE]

\* One executeDownload closure.
\*   phase        which subprocess of the attempt is alive
\*   hasCompleted the markComplete latch
\*   wt           the withTimeout promise wrapped around the attempt
\*   killed       a kill signal was sent to the live subprocess
\*   failure      classification of the error the retry loop caught for it
\*   errored      the subprocess has emitted 'error'
\*   cleaned      cleanupTempFiles has been called by the attempt
NewAttempt ==
  [phase |-> "info", hasCompleted |-> FALSE, wt |-> "pending",
   killed |-> FALSE, errored |-> FALSE, nData |-> 0, failure |-> NoFailure,
   cleaned |-> FALSE]

Ev(status, pos, retryCount, error) ==
  [status |-> status, queuePosition |-> pos, retryCount |-> retryCount,
   error |-> error]

\* sendProgress: if (this.window && !this.window.isDestroyed()) send(...).
\* events is what the window has been sent.  (this.emit('progress') has no
\* listener in the repository.)
sendProgress(s, id, ev) ==
  IF s.window THEN [s EXCEPT !.events[id] = Append(@, ev)] ELSE s

\* this.emit('cancelled', id): kept in the same per-id log, so that what is
\* sent after a cancellation can be told from what was sent before it
emitCancelled(s, id) ==
  IF s.window THEN [s EXCEPT !.events[id] = Append(@, Ev("cancelled", 0, 0, NoMsg))]
  ELSE s

(***************************************************************************)
(* DownloadQueueManager.                                                   *)
(***************************************************************************)
Queued(s) == {i \in s.queue : s.download[i].status = "queued"}

\* The comparator of the three sorts:
\*   (a, b) => b.priority - a.priority || a.addedAt - b.addedAt
compareMutant(a, b) ==
  IF a.priority - b.priority # 0 THEN a.priority - b.priority
  ELSE a.addedAt - b.addedAt

compare(a, b) ==
  IF b.priority - a.priority # 0 THEN b.priority - a.priority
  ELSE a.addedAt - b.addedAt

\* Array.prototype.sort is stable: an element goes behind every element that
\* does not compare greater than it.
RECURSIVE InsertSorted(_, _, _)
InsertSorted(s, sorted, x) ==
  IF sorted = << >> THEN <<x>>
  ELSE IF compare(s.download[Head(sorted)], s.download[x]) <= 0
       THEN <<Head(sorted)>> \o InsertSorted(s, Tail(sorted), x)
       ELSE <<x>> \o sorted

\* Array.from(this.queue.values()).filter(queued).sort(...): a Map iterates
\* in insertion order, and ids are inserted in increasing order.
RECURSIVE SortFrom(_, _, _)
SortFrom(s, i, acc) ==
  IF i > MaxJobs THEN acc
  ELSE SortFrom(s, i + 1, IF i \in Queued(s) THEN InsertSorted(s, acc, i) ELSE acc)

SortedQueued(s) == SortFrom(s, 1, << >>)

getNextQueuedDownload(s) ==
  LET queued == SortedQueued(s) IN
  IF queued = << >> THEN NoId ELSE queued[1]

IndexOf(seq, x) ==
  IF \E i \in 1..Len(seq) : seq[i] = x
  THEN CHOOSE i \in 1..Len(seq) : seq[i] = x
  ELSE 0

getQueuePosition(s, id) == IndexOf(SortedQueued(s), id)

RECURSIVE SendPositions(_, _, _)
SendPositions(s, queued, i) ==
  IF i > Len(queued) THEN s
  ELSE SendPositions(sendProgress(s, queued[i], Ev("queued", i, 0, NoMsg)),
                     queued, i + 1)

updateQueuePositions(s) == SendPositions(s, SortedQueued(s), 1)

\* while (this.activeDownloads.size < this.config.maxConcurrent)
HasCapacityMutant(s) == Cardinality(s.activeDownloads) <= s.config.maxConcurrent

HasCapacity(s) == Cardinality(s.activeDownloads) < s.config.maxConcurrent

\* executeDownloadAsync, up to the point where the download function has
\* returned its promise.  executeDownloadWithRetry runs synchronously to its
\* first await: attempt 0 of the loop, no back-off, executeDownload's
\* executor spawns the metadata process.  (A fresh id is never in
\* processedDownloads, so the guard of executeDownload passes.)
executeDownloadAsync(s, id) ==
  IF ~s.downloadFn
  THEN [s EXCEPT !.activeDownloads = @ \ {id},
                 !.download[id].status = "error",
                 !.download[id].error = "Download function not set"]
  ELSE [s EXCEPT !.pipe[id] = [loop |-> "run", attempt |-> 0,
                               maxRetries |-> s.download[id].maxRetries,
                               retryDelayBase |-> s.config.retryDelayBase,
                               timeout |-> s.config.downloadTimeout,
                               sleeps |-> << >>, thrown |-> NoMsg],
                 !.att[id] = <<NewAttempt>>]

\* One turn of the loop of processQueue for the job `next`.
Admit(s, next) ==
  LET s1 == [s EXCEPT !.download[next].status = "active",
                      !.activeDownloads = @ \cup {next},
                      !.admissions = Append(@, [id |-> next,
                                                rivals |-> Queued(s) \ {next}])]
      s2 == sendProgress(s1, next, Ev("downloading", 0, 0, NoMsg))
      s3 == updateQueuePositions(s2)
  IN executeDownloadAsync(s3, next)

RECURSIVE processQueue(_)
processQueue(s) ==
  IF HasCapacity(s)
  THEN LET next == getNextQueuedDownload(s) IN
       IF next = NoId THEN s ELSE processQueue(Admit(s, next))
  ELSE s

\* (as updateConfig, but the queue is not processed afterwards)
updateConfigMutant(s, partial) ==
  [s EXCEPT !.config =
      [f \in DOMAIN s.config |->
          IF f \in DOMAIN partial THEN partial[f] ELSE s.config[f]]]

updateConfig(s, partial) ==
  processQueue([s EXCEPT !.config =
      [f \in DOMAIN s.config |->
          IF f \in DOMAIN partial THEN partial[f] ELSE s.config[f]]])

add(s, id, speed, priority, t) ==
  LET s1 == [s EXCEPT !.download[id] =
                        [status |-> "queued", retryCount |-> 0,
                         maxRetries |-> s.config.maxRetries, addedAt |-> t,
                         priority |-> priority, speed |-> speed,
                         error |-> NoMsg],
                      !.queue = @ \cup {id},
                      !.now = t,
                      !.created = id]
      s2 == sendProgress(s1, id, Ev("queued", getQueuePosition(s1, id), 0, NoMsg))
  IN processQueue(s2)

\* (as cancel, but the pending purge timer is left alone)
cancelMutant(s, id) ==
  IF id \notin s.queue
  THEN [s EXCEPT !.ret = FALSE]
  ELSE [s EXCEPT !.activeDownloads =
                     IF s.download[id].status = "active" THEN @ \ {id} ELSE @,
                 !.queue = @ \ {id},
                 !.ret = TRUE]

cancel(s, id) ==
  IF id \notin s.queue
  THEN [s EXCEPT !.ret = FALSE]
  ELSE LET s1 == [s EXCEPT
                    !.activeDownloads =
                        IF s.download[id].status = "active" THEN @ \ {id} ELSE @,
                    !.cleanupTimers = @ \ {id},
                    !.queue = @ \ {id},
                    !.ret = TRUE]
       IN processQueue(emitCancelled(s1, id))

\* cancelAll: const ids = Array.from(this.queue.keys()); for (id of ids) cancel(id)
RECURSIVE CancelFrom(_, _, _)
CancelFrom(s, ids, i) ==
  IF i > MaxJobs THEN s
  ELSE CancelFrom(IF i \in ids THEN cancel(s, i) ELSE s, ids, i + 1)

\* (as cancelAll, but the active jobs are passed over)
cancelAllMutant(s) ==
  [CancelFrom(s, {i \in s.queue : s.download[i].status # "active"}, 1)
     EXCEPT !.ret = FALSE]

cancelAll(s) == [CancelFrom(s, s.queue, 1) EXCEPT !.ret = FALSE]

\* (as pause, but without the test of the status)
pauseMutant(s, id) ==
  IF id \notin s.queue
  THEN [s EXCEPT !.ret = FALSE]
  ELSE [s EXCEPT !.download[id].status = "paused",
                 !.ret = TRUE]

pause(s, id) ==
  IF id \notin s.queue \/ s.download[id].status # "queued"
  THEN [s EXCEPT !.ret = FALSE]
  ELSE [s EXCEPT !.download[id].status = "paused",
                 !.ret = TRUE]

resume(s, id) ==
  IF id \notin s.queue \/ s.download[id].status # "paused"
  THEN [s EXCEPT !.ret = FALSE]
  ELSE processQueue([s EXCEPT
                       !.download[id].status = "queued",
                       !.ret = TRUE])

\* (as Settle, but the id is left in the active set)
SettleMutant(s, id, ok, msg) ==
  LET s1 == IF ok
            THEN [s EXCEPT !.download[id].status = "completed"]
            ELSE sendProgress([s EXCEPT !.download[id].status = "error",
                                        !.download[id].error = msg],
                              id, Ev("error", 0, 0, msg))
      s2 == [s1 EXCEPT !.cleanupTimers = @ \cup {id}]
  IN processQueue(s2)

\* The .then / .catch / .finally chain attached to the download function's
\* promise.  `download` is the object captured at launch: the chain writes
\* to it whether or not the id is still a key of the Map.
Settle(s, id, ok, msg) ==
  LET s1 == IF ok
            THEN [s EXCEPT !.download[id].status = "completed"]
            ELSE sendProgress([s EXCEPT !.download[id].status = "error",
                                        !.download[id].error = msg],
                              id, Ev("error", 0, 0, msg))
      s2 == [s1 EXCEPT !.activeDownloads = @ \ {id},
                       !.cleanupTimers = @ \cup {id}]
  IN processQueue(s2)

(***************************************************************************)
(* Retry controller (downloader.ts executeDownloadWithRetry).              *)
(***************************************************************************)
RECURSIVE Pow2(_)
Pow2(n) == IF n <= 0 THEN 1 ELSE 2 * Pow2(n - 1)

\* const delay = config.retryDelayBase * Math.pow(2, attempt - 1)
RetryDelayMutant(base, attempt) == base

RetryDelay(base, attempt) == base * Pow2(attempt - 1)

\* sleepWithJitter: Math.random() * 0.5 * baseMs lies in [0, baseMs / 2);
\* jit = 0 is the least jitter, jit = 1 the largest whole number of ms.
JitterChoices == {0, 1}
Jitter(baseMs, jit) == IF jit = 0 \/ baseMs < 2 THEN 0 ELSE (baseMs \div 2) - 1

\* if (attempt === config.maxRetries) throw ...
RetriesExhaustedMutant(p) == p.attempt + 1 >= p.maxRetries

RetriesExhausted(p) == p.attempt = p.maxRetries

\* if (!classified.retryable) throw ...
GivesUpMutant(classified) == FALSE

GivesUp(classified) == ~classified.retryable

\* The invocation rejects: the queue manager's chain runs.
Throw(s, id, msg) ==
  Settle([s EXCEPT !.pipe[id].loop = "rejected", !.pipe[id].thrown = msg],
         id, FALSE, msg)

\* The catch block of the loop, entered with the error of attempt k, and,
\* when the loop goes round, the top of the next iteration up to its await
\* of sleepWithJitter.
LoopCatch(s, id, k, text, jit) ==
  LET classified == classifyError(text)
      p == s.pipe[id]
      s1 == [s EXCEPT !.att[id][k].failure = classified]
  IN IF GivesUp(classified) \/ RetriesExhausted(p)
     THEN Throw(s1, id, classified.userMessage)
     ELSE LET attempt == p.attempt + 1
              delay == RetryDelay(p.retryDelayBase, attempt)
              s2 == sendProgress(s1, id, Ev("retrying", 0, attempt, NoMsg))
          IN [s2 EXCEPT !.pipe[id].attempt = attempt,
                        !.pipe[id].loop = "sleep",
                        !.pipe[id].sleeps = Append(@, delay + Jitter(delay, jit))]

\* reject(err) inside executeDownload of attempt k: it reaches the loop only
\* if withTimeout has not settled the attempt already.
Reject(s, id, k, text, jit) ==
  IF s.att[id][k].wt = "pending"
  THEN LoopCatch([s EXCEPT !.att[id][k].wt = "settled"], id, k, text, jit)
  ELSE s

\* resolve() inside executeDownload of attempt k
Resolve(s, id, k) ==
  IF s.att[id][k].wt = "pending"
  THEN Settle([s EXCEPT !.att[id][k].wt = "settled",
                        !.pipe[id].loop = "resolved"], id, TRUE, NoMsg)
  ELSE s

(***************************************************************************)
(* One attempt (downloader.ts executeDownload, adjustSpeed).               *)
(***************************************************************************)
\* markComplete(): if (hasCompleted) return false; hasCompleted = true; ...
\* A failure path: `if (markComplete()) { ...; reject(new Error(text)) }`
FailOnce(s, id, k, text, jit) ==
  IF s.att[id][k].hasCompleted THEN s
  ELSE Reject([s EXCEPT !.att[id][k].hasCompleted = TRUE], id, k, text, jit)

\* cleanupTempFiles(outputDir, safeTitle): the attempt's temporary file is
\* unlinked if it exists; an error of unlink is caught and dropped, so the
\* call returns in the same way whether or not the file went away.
cleanupTempFiles(s, id, k) == [s EXCEPT !.att[id][k].cleaned = TRUE]

\* A failure path with cleanup:
\* `if (markComplete()) { await cleanupTempFiles(...); reject(new Error(text)) }`
CleanAndFail(s, id, k, text, jit) ==
  IF s.att[id][k].hasCompleted THEN s
  ELSE Reject(cleanupTempFiles([s EXCEPT !.att[id][k].hasCompleted = TRUE],
                               id, k),
              id, k, text, jit)

\* The success tail shared by both branches of the 'close' handler:
\* addToHistory(...); if (markComplete(true)) { onProgress(complete); resolve() }
Succeed(s, id, k) ==
  LET s1 == [s EXCEPT !.historyCalls[id] = @ + 1] IN
  IF s1.att[id][k].hasCompleted THEN s1
  ELSE Resolve(sendProgress([s1 EXCEPT !.att[id][k].hasCompleted = TRUE,
                                       !.processedDownloads = @ \cup {id}],
                            id, Ev("complete", 0, 0, NoMsg)),
               id, k)

\* executeDownload called for a further attempt, after the back-off
beginAttempt(s, id, jit) ==
  LET k == Len(s.att[id]) + 1 IN
  IF id \in s.processedDownloads
  THEN Reject([s EXCEPT !.att[id] = Append(@, [NewAttempt EXCEPT
                                                 !.phase = "ended"]),
                        !.pipe[id].loop = "run"],
              id, k, Text("Download already processed", {}), jit)
  ELSE [s EXCEPT !.att[id] = Append(@, NewAttempt), !.pipe[id].loop = "run"]

Attempts(id) == 1..Len(att[id])

(***************************************************************************)
(* Actions: the queue manager's API and the IPC handlers.                  *)
(***************************************************************************)
\* queue.setDownloadFunction(executeDownloadWithRetry)
SetDownloadFunction ==
  /\ ~downloadFn
  /\ Commit([St EXCEPT !.downloadFn = TRUE])

\* startDownload -> queue.add(id, url, options); dt: whether the clock has
\* moved on since the previous Date.now()
Add(speed, priority, dt) ==
  /\ created < MaxJobs
  /\ Commit(add(St, created + 1, speed, priority, now + dt))

\* validateDownloadOptions.  options is [obj, quality, speed, rateLimit]:
\* obj says whether the value received is an object at all.
validateDownloadOptions(options) ==
  IF ~options.obj
  THEN [quality |-> Str("320"), speed |-> Whole(1), rateLimit |-> Undefined]
  ELSE [quality |->
          IF options.quality \in {Str("128"), Str("192"), Str("256"), Str("320")}
          THEN options.quality ELSE Str("320"),
        speed |->
          IF /\ IsNumber(options.speed)
             /\ Less(Whole(0), options.speed)
             /\ LessEq(options.speed, Whole(3))
          THEN options.speed ELSE Whole(1),
        rateLimit |->
          IF /\ IsNumber(options.rateLimit)
             /\ LessEq(Whole(0), options.rateLimit)
             /\ LessEq(options.rateLimit, Whole(100000))
          THEN options.rateLimit ELSE Undefined]

MIN_DISK_SPACE_BYTES == 500 * 1024 * 1024

\* checkDiskSpace.  disk is [mkdir, statfs, available]: whether mkdirSync and
\* statfsSync succeed, and the bytes free on the volume.
checkDiskSpace(disk) ==
  IF disk.statfs
  THEN [available |-> disk.available,
        sufficient |-> disk.available >= MIN_DISK_SPACE_BYTES]
  ELSE [available |-> 0, sufficient |-> TRUE]

NoOptions == [quality |-> Undefined, speed |-> Undefined, rateLimit |-> Undefined]

\* throw new Error(message): the handler's promise rejects
ThrowError(s, message) ==
  [s EXCEPT !.ret = [error |-> message, id |-> NoId, options |-> NoOptions]]

\* startDownload.  The queue treats every speed other than 1 alike.
startDownload(s, url, options, disk) ==
  IF ~disk.mkdir THEN ThrowError(s, "Cannot create download directory")
  ELSE IF ~checkDiskSpace(disk).sufficient
  THEN ThrowError(s, "Insufficient disk space. Need at least 500MB free.")
  ELSE LET id == s.created + 1
           s1 == add(s, id, IF options.speed = Whole(1) THEN 1 ELSE 2, 0,
                     s.now + 1)
       IN [s1 EXCEPT !.ret = [error |-> NoMsg, id |-> id, options |-> options]]

\* ipcMain.handle('download:start')
downloadStart(s, url, options, disk) ==
  IF ~s.window THEN ThrowError(s, "No main window")
  ELSE IF url.k # "string" \/ Trim(url.s) = ""
  THEN ThrowError(s, "Invalid URL")
  ELSE LET validatedOptions == validateDownloadOptions(options)
           downloadOptions ==
             [validatedOptions EXCEPT !.rateLimit =
                IF @ = Undefined THEN s.settings.bandwidthLimit ELSE @]
       IN startDownload(s, url, downloadOptions, disk)

DownloadStart(url, options, disk) ==
  /\ created < MaxJobs
  /\ Commit(LET r == downloadStart(St, url, options, disk)
            IN [r EXCEPT
                  !.input = Call("download:start",
                                 [url |-> url, options |-> options, disk |-> disk]),
                  !.output = Call("download:start", r.ret)])

Cancel(id) == Commit(cancel(St, id))

\* ipcMain.handle('queue:cancel-all')
CancelAll == Commit(cancelAll(St))

Pause(id) == Commit(pause(St, id))

Resume(id) == Commit(resume(St, id))

\* ipcMain.handle('settings:update-download'): store the validated update,
\* then reconfigure the queue from what was stored
settingsUpdateDownload(s, partial) ==
  LET s1 == updateDownloadSettings(s, partial)
  IN updateConfig(s1, QueueConfig(s1.settings))

\* the settings handler, called with whole numbers
UpdateConfig(mc, mr, to) ==
  /\ [maxConcurrent |-> mc, maxRetries |-> mr, downloadTimeout |-> to]
       # [f \in {"maxConcurrent", "maxRetries", "downloadTimeout"} |-> config[f]]
  /\ Commit(settingsUpdateDownload(St,
        [maxConcurrentDownloads |-> Whole(mc), maxRetries |-> Whole(mr),
         downloadTimeout |-> Whole(to \div 1000),
         bandwidthLimit |-> Undefined, autoRetry |-> Undefined]))

\* cancelDownload(id): kill what the registries hold for id, then queue.cancel
cancelDownload(s, id) ==
  LET p == s.activeProcesses[id]
      f == s.activeFFmpegCommands[id]
      s1 == IF p # 0
            THEN [s EXCEPT !.att[id][p].killed = TRUE, !.activeProcesses[id] = 0]
            ELSE s
      s2 == IF f # 0
            THEN [s1 EXCEPT !.att[id][f].killed = TRUE,
                            !.activeFFmpegCommands[id] = 0]
            ELSE s1
  IN cancel(s2, id)

\* ipcMain.handle('download:cancel')
CancelDownload(id) == Commit(cancelDownload(St, id))

\* The purge timer set in .finally fires
CleanupTimerFire(id) ==
  /\ id \in cleanupTimers
  /\ Commit([St EXCEPT !.cleanupTimers = @ \ {id},
                       !.queue = IF download[id].status \in {"completed", "error"}
                                 THEN @ \ {id} ELSE @])

(***************************************************************************)
(* Actions: subprocess events and timers of one attempt.                   *)
(***************************************************************************)
\* infoProcess.on('close'): outcome ok | fail | timedout
InfoClose(id, k, outcome, text, jit) ==
  /\ k \in Attempts(id)
  /\ att[id][k].phase = "info"
  /\ LET s == St IN
     CASE outcome = "timedout" ->
            Commit(FailOnce([s EXCEPT !.att[id][k].phase = "ended"], id, k,
                   Text("Fetching video info timed out. Please try again.", {6}),
                   jit))
       [] outcome = "fail" ->
            Commit(FailOnce([s EXCEPT !.att[id][k].phase = "ended"], id, k,
                            OrDefault(text, "Failed to get video info"), jit))
       [] outcome = "ok" ->
            Commit(sendProgress([s EXCEPT !.att[id][k].phase = "download",
                                          !.activeProcesses[id] = k],
                                id, Ev("downloading", 0, 0, NoMsg)))

\* infoProcess.on('error')
InfoError(id, k, jit) ==
  /\ k \in Attempts(id)
  /\ att[id][k].phase = "info"
  /\ Commit(FailOnce([St EXCEPT !.att[id][k].phase = "ended"], id, k,
                     Text("Failed to start yt-dlp: spawn error", {}), jit))

\* downloadProcess.stdout.on('data') with a line holding a percentage
DownloadData(id, k) ==
  /\ k \in Attempts(id)
  /\ att[id][k].phase = "download"
  /\ att[id][k].nData < MaxData
  /\ Commit(sendProgress([St EXCEPT !.att[id][k].nData = @ + 1], id,
                         Ev("downloading", 0, 0, NoMsg)))

\* downloadProcess.on('close'): code ok | fail; renameOk: whether rename worked
DownloadClose(id, k, code, text, renameOk, jit) ==
  /\ k \in Attempts(id)
  /\ att[id][k].phase = "download"
  /\ att[id][k].killed => code = "fail"
  /\ LET s == [St EXCEPT !.activeProcesses[id] = 0] IN
     IF code = "fail"
     THEN Commit(CleanAndFail([s EXCEPT !.att[id][k].phase = "ended"], id, k,
                              OrDefault(text, "Download failed"), jit))
     ELSE IF download[id].speed # 1
     THEN Commit(sendProgress([s EXCEPT !.att[id][k].phase = "convert",
                                        !.activeFFmpegCommands[id] = k],
                              id, Ev("converting", 0, 0, NoMsg)))
     ELSE IF ~renameOk
     THEN Commit(FailOnce([s EXCEPT !.att[id][k].phase = "ended"], id, k,
                          Text("Failed to save file: rename error", {}), jit))
     ELSE Commit(Succeed([s EXCEPT !.att[id][k].phase = "ended"], id, k))

\* downloadProcess.on('error')
DownloadError(id, k, jit) ==
  /\ k \in Attempts(id)
  /\ att[id][k].phase = "download"
  /\ ~att[id][k].errored
  /\ Commit(CleanAndFail([St EXCEPT !.activeProcesses[id] = 0,
                                    !.att[id][k].errored = TRUE], id, k,
                         Text("Download process error: spawn error", {}), jit))

\* ffmpeg 'end': adjustSpeed resolves, the temp file is unlinked
ConvertEnd(id, k) ==
  /\ k \in Attempts(id)
  /\ att[id][k].phase = "convert"
  /\ ~att[id][k].killed
  /\ Commit(Succeed([St EXCEPT !.activeFFmpegCommands[id] = 0,
                               !.att[id][k].phase = "ended"], id, k))

\* ffmpeg 'error': adjustSpeed rejects, the catch block of the 'close' handler
ConvertError(id, k, text, jit) ==
  /\ k \in Attempts(id)
  /\ att[id][k].phase = "convert"
  /\ LET t == IF att[id][k].killed
              THEN Text("ffmpeg was killed with signal SIGKILL", {8, 9})
              ELSE text
     IN Commit(CleanAndFail([St EXCEPT !.activeFFmpegCommands[id] = 0,
                                       !.att[id][k].phase = "ended"], id, k,
                            Wrap("Speed adjustment failed: ", t), jit))

\* The timer of withTimeout fires before the attempt has settled
AttemptTimeout(id, k, jit) ==
  /\ k \in Attempts(id)
  /\ att[id][k].wt = "pending"
  /\ Commit(LoopCatch([St EXCEPT !.att[id][k].wt = "settled"], id, k,
                      TimedOutText(pipe[id].timeout), jit))

\* The timer of sleepWithJitter fires
SleepDone(id, jit) ==
  /\ pipe[id].loop = "sleep"
  /\ Commit(beginAttempt(St, id, jit))

(***************************************************************************)
(* Specifications.                                                         *)
(***************************************************************************)
\* the queue manager and the downloader before the first submission
InitRest(fn, win) ==
  /\ downloadFn = fn
  /\ download = [i \in Ids |-> NoDownload]
  /\ queue = {}
  /\ activeDownloads = {}
  /\ cleanupTimers = {}
  /\ now = 0
  /\ created = 0
  /\ pipe = [i \in Ids |-> NoPipe]
  /\ att = [i \in Ids |-> << >>]
  /\ activeProcesses = [i \in Ids |-> 0]
  /\ activeFFmpegCommands = [i \in Ids |-> 0]
  /\ processedDownloads = {}
  /\ historyCalls = [i \in Ids |-> 0]
  /\ events = [i \in Ids |-> << >>]
  /\ admissions = << >>
  /\ window = win

InitWith(mcs, mrs, fn, win) ==
  /\ config \in [maxConcurrent : mcs, maxRetries : mrs,
                 retryDelayBase : {RetryDelayBase},
                 downloadTimeout : {DefaultTimeout}]
  /\ InitRest(fn, win)
  /\ settings = StoreFor(config)
  /\ input = NoCall
  /\ output = NoCall

\* One call under observation: the store holds one of stores, the queue is
\* configured from it as createWindow does, and the call is one of calls.
InitCall(stores, calls) ==
  /\ settings \in stores
  /\ config = [maxConcurrent |-> QueueConfig(settings).maxConcurrent,
               maxRetries |-> QueueConfig(settings).maxRetries,
               retryDelayBase |-> RetryDelayBase,
               downloadTimeout |-> QueueConfig(settings).downloadTimeout]
  /\ InitRest(TRUE, TRUE)
  /\ input \in calls
  /\ output = NoCall

NoText == Text("", {})

\* The queue manager in front of pipelines that run one attempt and either
\* succeed or fail; no window is attached, so nothing is logged.
Init == InitWith(1..MaxConcurrentBound, {0}, TRUE, FALSE)

PipelineOutcome ==
  \E id \in Ids :
    \/ \E outcome \in {"ok", "fail"} : InfoClose(id, 1, outcome, NoText, 0)
    \/ \E code \in {"ok", "fail"} : DownloadClose(id, 1, code, NoText, TRUE, 0)

QueueCall ==
  \/ Add(1, 0, 1)
  \/ \E id \in Ids : Cancel(id)
  \/ \E id \in Ids : CancelDownload(id)
  \/ CancelAll
  \/ \E id \in Ids : Pause(id)
  \/ \E id \in Ids : Resume(id)
  \/ \E id \in Ids : CleanupTimerFire(id)

\* maxConcurrent held fixed
NextFixed == QueueCall \/ PipelineOutcome

SpecFixed == Init /\ [][NextFixed]_vars

\* with reconfiguration
Next ==
  \/ NextFixed
  \/ \E mc \in 1..MaxConcurrentBound : UpdateConfig(mc, 0, DefaultTimeout)

Spec == Init /\ [][Next]_vars

\* A pipeline fails at the metadata fetch or runs to success
PipelineSettles ==
  \E id \in Ids :
    \/ \E outcome \in {"ok", "fail"} : InfoClose(id, 1, outcome, NoText, 0)
    \/ DownloadClose(id, 1, "ok", NoText, TRUE, 0)

\* Submissions with priorities, and a clock that may stand still between two
\* submissions; pause, resume, cancel, settlement, purge and reconfiguration.
NextOrder ==
  \/ \E priority \in Priorities, dt \in {0, 1} : Add(1, priority, dt)
  \/ \E id \in Ids : Cancel(id)
  \/ \E id \in Ids : Pause(id)
  \/ \E id \in Ids : Resume(id)
  \/ \E id \in Ids : CleanupTimerFire(id)
  \/ \E mc \in 1..MaxConcurrentBound : UpdateConfig(mc, 0, DefaultTimeout)
  \/ PipelineSettles

SpecOrder == Init /\ [][NextOrder]_vars

\* Submissions only, to a queue with one slot: nothing but settlements and
\* purges happens besides.
InitOneSlot == InitWith({1}, {0}, TRUE, FALSE)

NextSubmit ==
  \/ \E priority \in Priorities, dt \in {0, 1} : Add(1, priority, dt)
  \/ \E id \in Ids : CleanupTimerFire(id)
  \/ PipelineOutcome

SpecSubmit == InitOneSlot /\ [][NextSubmit]_vars

\* One job's pipeline, watched through the window.
InitObserved == InitWith({1}, 0..MaxRetriesBound, TRUE, TRUE)

\* What the subprocesses of attempt k and the back-off timer can do, with
\* every stderr text and both extremes of the jitter.
AttemptStep ==
  \E id \in Ids, k \in 1..(MaxRetriesBound + 1), jit \in JitterChoices :
    \/ \E outcome \in {"ok", "fail", "timedout"}, text \in StderrTexts :
         InfoClose(id, k, outcome, text, jit)
    \/ InfoError(id, k, jit)
    \/ DownloadData(id, k)
    \/ \E code \in {"ok", "fail"}, text \in StderrTexts, renameOk \in BOOLEAN :
         DownloadClose(id, k, code, text, renameOk, jit)
    \/ DownloadError(id, k, jit)
    \/ ConvertEnd(id, k)
    \/ \E text \in FfmpegTexts : ConvertError(id, k, text, jit)
    \/ SleepDone(id, jit)

\* Attempts that settle before the timer of withTimeout would fire
NextRetry ==
  \/ created < PipelineJobs /\ \E speed \in Speeds : Add(speed, 0, 1)
  \/ \E id \in Ids : CleanupTimerFire(id)
  \/ AttemptStep

SpecRetry == InitObserved /\ [][NextRetry]_vars

\* Attempts that the timer of withTimeout may overtake: the overtaken
\* attempt keeps running beside its successors.  Least jitter only.
TimedStep ==
  \E id \in Ids, k \in 1..(MaxRetriesBound + 1) :
    \/ \E outcome \in {"ok", "fail", "timedout"}, text \in StderrTexts :
         InfoClose(id, k, outcome, text, 0)
    \/ InfoError(id, k, 0)
    \/ \E code \in {"ok", "fail"}, text \in StderrTexts, renameOk \in BOOLEAN :
         DownloadClose(id, k, code, text, renameOk, 0)
    \/ ConvertEnd(id, k)
    \/ \E text \in FfmpegTexts : ConvertError(id, k, text, 0)
    \/ AttemptTimeout(id, k, 0)
    \/ SleepDone(id, 0)

NextTimeout ==
  \/ created < PipelineJobs /\ \E speed \in Speeds : Add(speed, 0, 1)
  \/ \E id \in Ids : CleanupTimerFire(id)
  \/ TimedStep

SpecTimeout == InitObserved /\ [][NextTimeout]_vars

\* Cancellation by each of its three entry points, at any moment
NextCancel ==
  \/ NextRetry
  \/ \E id \in Ids : Cancel(id)
  \/ \E id \in Ids : CancelDownload(id)
  \/ CancelAll

SpecCancel == InitObserved /\ [][NextCancel]_vars

\* Cancellation through the download:cancel handler only
NextKill ==
  \/ NextRetry
  \/ \E id \in Ids : CancelDownload(id)

SpecKill == InitObserved /\ [][NextKill]_vars

\* A queue manager whose window has been set and whose download function
\* has not been yet: jobs submitted meanwhile cannot be executed.
InitUnset == InitWith(1..MaxConcurrentBound, {0}, FALSE, TRUE)

NextUnset ==
  \/ SetDownloadFunction
  \/ Add(1, 0, 1)
  \/ \E id \in Ids : Cancel(id)
  \/ \E id \in Ids : CleanupTimerFire(id)
  \/ PipelineOutcome

SpecUnset == InitUnset /\ [][NextUnset]_vars

\* settings.ts defaults
DefaultSettings ==
  [maxConcurrentDownloads |-> Whole(2), maxRetries |-> Whole(3),
   downloadTimeout |-> Whole(300), bandwidthLimit |-> Whole(0),
   autoRetry |-> Bool(TRUE)]

\* a store the user has moved away from the defaults
EditedSettings ==
  [maxConcurrentDownloads |-> Whole(5), maxRetries |-> Whole(1),
   downloadTimeout |-> Whole(60), bandwidthLimit |-> Whole(500),
   autoRetry |-> Bool(FALSE)]

\* Partial<DownloadSettings> objects whose numeric fields are absent or of
\* type number: below, inside and above the range, fractional, and NaN
SettingsUpdates ==
  [maxConcurrentDownloads : {Undefined, Whole(0), Whole(3), Num(549), Whole(99), NaN},
   maxRetries : {Undefined, Whole(-1), Num(1050), Whole(4)},
   downloadTimeout : {Undefined, Num(5949), Whole(601)},
   bandwidthLimit : {Undefined, Num(-50), Whole(100001)},
   autoRetry : {Undefined, Bool(TRUE)}]

\* updateDownloadSettings(input.arg)
UpdateDownloadSettings ==
  /\ input.op = "updateDownloadSettings"
  /\ output.op = "none"
  /\ Commit(LET s1 == updateDownloadSettings(St, input.arg)
            IN [s1 EXCEPT !.output =
                  Call(input.op, [current |-> settings, updated |-> s1.ret])])

InitSettings ==
  InitCall({DefaultSettings, EditedSettings},
           {Call("updateDownloadSettings", p) : p \in SettingsUpdates})

NextSettings == UpdateDownloadSettings

SpecSettings == InitSettings /\ [][NextSettings]_vars

\* an update that carries one field, as the settings panel sends them
OneField(key, value) ==
  [f \in SettingsFields |-> IF f = key THEN value ELSE Undefined]

\* Updates sent while jobs are queued and running: finite numbers, some in
\* need of clamping
LiveUpdates ==
  {OneField("maxConcurrentDownloads", Whole(n)) : n \in 0..MaxConcurrentBound}
    \cup {OneField("maxRetries", Whole(MaxRetriesBound)),
          OneField("downloadTimeout", Whole(30))}
    \cup {OneField("autoRetry", Bool(b)) : b \in BOOLEAN}

\* ipcMain.handle('settings:update-download')
SettingsUpdateDownload(partial) ==
  Commit(settingsUpdateDownload(St, partial))

NextLive ==
  \/ Add(1, 0, 1)
  \/ \E id \in Ids : CleanupTimerFire(id)
  \/ PipelineSettles
  \/ \E partial \in LiveUpdates : SettingsUpdateDownload(partial)

SpecLive == Init /\ [][NextLive]_vars

\* What the renderer may send as the source, the options and what the file
\* system may answer.
Urls ==
  {Str("https://youtu.be/a"), Str(" https://youtu.be/a "),
   Str(""), Str("  "), Str(" \t\n"), Undefined, Whole(7)}

Options(quality, speed, rateLimit) ==
  [obj |-> TRUE, quality |-> quality, speed |-> speed, rateLimit |-> rateLimit]

\* something that is not an object, and objects in which one field at a
\* time is absent, of the wrong type, outside its range, on its edge or valid
OptionsSent ==
  {[obj |-> FALSE, quality |-> Undefined, speed |-> Undefined,
    rateLimit |-> Undefined]}
  \cup {Options(quality, Whole(2), Whole(0)) :
          quality \in {Undefined, Str("128"), Str("64"), Whole(320)}}
  \cup {Options(Str("192"), speed, Undefined) :
          speed \in {Undefined, Str("2"), NaN, Whole(0), Num(50), Whole(1),
                     Whole(3), Num(301)}}
  \cup {Options(Str("256"), Num(150), rateLimit) :
          rateLimit \in {Undefined, Str("5"), NaN, Num(-1), Whole(0),
                         Whole(100000), Whole(100001)}}

Disks ==
  [mkdir : {TRUE}, statfs : BOOLEAN,
   available : {MIN_DISK_SPACE_BYTES - 1, MIN_DISK_SPACE_BYTES}]
  \cup {[mkdir |-> FALSE, statfs |-> TRUE, available |-> MIN_DISK_SPACE_BYTES]}

\* the calls explored: every source with one set of options on a roomy
\* volume, and one source with every set of options on every volume
StartCalls ==
  (Urls \X {Options(Str("128"), Whole(1), Whole(0))}
        \X {[mkdir |-> TRUE, statfs |-> TRUE, available |-> MIN_DISK_SPACE_BYTES]})
  \cup ({Str("https://youtu.be/a")} \X OptionsSent \X Disks)

LimitedSettings == [DefaultSettings EXCEPT !.bandwidthLimit = Whole(500)]

InitStart == InitCall({DefaultSettings, LimitedSettings}, {NoCall})

NextStart ==
  \/ \E c \in StartCalls : DownloadStart(c[1], c[2], c[3])
  \/ \E id \in Ids : CleanupTimerFire(id)
  \/ PipelineSettles

SpecStart == InitStart /\ [][NextStart]_vars

(***************************************************************************)
(* sanitizeFilename (downloader.ts).  Strings are TLA+ strings; the         *)
(* character at position i of t is SubSeq(t, i, i).                        *)
(***************************************************************************)
\* the characters /[<>:"/\\|?*\x00-\x1f]/ matches, the control characters
\* being those a TLA+ string can hold
IllegalChars == {"<", ">", ":", "\"", "/", "\\", "|", "?", "*"}
ControlChars == {"\t", "\n", "\r", "\f"}

\* filename.replace(/[<>:"/\\|?*\x00-\x1f]/g, '_') (the text is converted
\* half by half)
RECURSIVE ReplaceIllegal(_)
ReplaceIllegal(t) ==
  IF Len(t) = 0 THEN ""
  ELSE IF Len(t) = 1
  THEN (IF t \in IllegalChars \cup ControlChars THEN "_" ELSE t)
  ELSE ReplaceIllegal(SubSeq(t, 1, Len(t) \div 2))
         \o ReplaceIllegal(SubSeq(t, Len(t) \div 2 + 1, Len(t)))

\* safe.split('.')[0]: what stands before the first dot
BeforeDot(t) ==
  LET dots == {i \in 1..Len(t) : SubSeq(t, i, i) = "."} IN
  IF dots = {} THEN t
  ELSE SubSeq(t, 1, (CHOOSE i \in dots : \A j \in dots : i <= j) - 1)

\* WINDOWS_RESERVED_NAMES = /^(CON|PRN|AUX|NUL|COM[1-9]|LPT[1-9])$/i
WINDOWS_RESERVED_NAMES(t) ==
  \/ Upper(t) \in {"CON", "PRN", "AUX", "NUL"}
  \/ /\ Len(t) = 4
     /\ Upper(SubSeq(t, 1, 3)) \in {"COM", "LPT"}
     /\ SubSeq(t, 4, 4) \in {"1", "2", "3", "4", "5", "6", "7", "8", "9"}

\* (as Truncate, but nothing is cut)
TruncateMutant(t) == t

\* safe.substring(0, 80)
Truncate(t) == IF Len(t) > 80 THEN SubSeq(t, 1, 80) ELSE t

\* safe.replace(/[. ]+$/, ''): all that follows the last character that is
\* neither a dot nor a space is removed
StripTrailing(t) ==
  LET kept == {i \in 1..Len(t) : SubSeq(t, i, i) \notin {".", " "}} IN
  IF kept = {} THEN ""
  ELSE SubSeq(t, 1, CHOOSE i \in kept : \A j \in kept : j <= i)

sanitizeFilename(filename, isWindows) ==
  LET replaced == ReplaceIllegal(filename)
      guarded == IF isWindows /\ WINDOWS_RESERVED_NAMES(BeforeDot(replaced))
                 THEN "_" \o replaced ELSE replaced
      stripped == StripTrailing(Truncate(guarded))
  IN IF stripped = "" THEN "download" ELSE stripped

\* t written n times
RECURSIVE Repeat(_, _)
Repeat(t, n) ==
  IF n = 0 THEN ""
  ELSE IF n = 1 THEN t
  ELSE Repeat(t, n \div 2) \o Repeat(t, n - n \div 2)

\* Titles: short and long bodies, illegal and control characters, reserved
\* device names, each with endings of dots, spaces and line ends
TitleBodies ==
  {"", "a", "..", "CON", "con.txt", "lpt1", "COM0", "a<b>c:d\"e/f\\g|h?i*j",
   "tab\there", Repeat("x", 78), Repeat("x", 79), Repeat("x", 80),
   Repeat("x", 81), Repeat(". ", 45), Repeat("x", 77) \o "CON"}

TitleEndings == {"", ".", " ", ". .", "\n", ".mp3"}

Titles == {b \o e : b \in TitleBodies, e \in TitleEndings}

\* sanitizeFilename(videoTitle)
SanitizeFilename ==
  /\ input.op = "sanitizeFilename"
  /\ output.op = "none"
  /\ Commit([St EXCEPT !.output =
       Call(input.op, sanitizeFilename(input.arg.filename, input.arg.isWindows))])

InitSanitize ==
  InitCall({DefaultSettings},
           {Call("sanitizeFilename", [filename |-> f, isWindows |-> w]) :
              f \in Titles, w \in BOOLEAN})

NextSanitize == SanitizeFilename

SpecSanitize == InitSanitize /\ [][NextSanitize]_vars

(***************************************************************************)
(* The tempo filter chain of adjustSpeed.                                  *)
(*                                                                         *)
(* remainingSpeed is halved exactly, so it is kept as a fraction: [n, d]   *)
(* stands for n hundredths divided by d, d a power of two.                 *)
(***************************************************************************)
SpeedsTried == 400     \* speeds sent, in hundredths: 0.00 .. 4.00

\* the loop `while (remainingSpeed > 2.0)`
RECURSIVE TempoLoop(_, _)
TempoLoop(filters, remainingSpeed) ==
  IF remainingSpeed.n > 200 * remainingSpeed.d
  THEN TempoLoop(Append(filters, [n |-> 200, d |-> 1]),
                 [remainingSpeed EXCEPT !.d = 2 * @])
  ELSE [filters |-> filters, remainingSpeed |-> remainingSpeed]

\* atempoFilters as adjustSpeed builds it for speed (in hundredths)
atempoFilters(speed) ==
  LET after == TempoLoop(<< >>, [n |-> speed, d |-> 1])
  IN IF 2 * after.remainingSpeed.n > 100 * after.remainingSpeed.d
     THEN Append(after.filters, after.remainingSpeed)
     ELSE after.filters

\* speeds validateDownloadOptions lets through and for which executeDownload
\* calls adjustSpeed
AcceptedSpeeds ==
  {h \in 0..SpeedsTried :
     /\ validateDownloadOptions(Options(Str("320"), Num(h), Undefined)).speed
          = Num(h)
     /\ h # 100}

\* adjustSpeed(..., speed, ...) up to filterString
AtempoFilters ==
  /\ input.op = "adjustSpeed"
  /\ output.op = "none"
  /\ Commit([St EXCEPT !.output = Call(input.op, atempoFilters(input.arg))])

InitTempo ==
  InitCall({DefaultSettings}, {Call("adjustSpeed", h) : h \in AcceptedSpeeds})

NextTempo == AtempoFilters

SpecTempo == InitTempo /\ [][NextTempo]_vars

(***************************************************************************)
(* classifyError on its own, and on the text withTimeout raises.           *)
(***************************************************************************)
\* lines the extractor and the transcoder write, one naming each cause, one
\* naming none, and a long one
ErrorLines ==
  {"", "ERROR: Video unavailable", "ERROR: Private video",
   "Sign in to confirm your age", "HTTP Error 429: Too Many Requests",
   "No space left on device", "Connection timed out", "read ECONNRESET",
   "Request aborted", "ffmpeg exited with code 1", "Conversion failed!",
   "Error opening input: Network is unreachable", "Unsupported URL",
   Repeat("x", 199)}

\* what stderr has gathered: two lines
ErrorTexts == {ErrorText(a \o "\n" \o b) : a \in ErrorLines, b \in ErrorLines}

\* classifyError(error)
ClassifyError ==
  /\ input.op = "classifyError"
  /\ output.op = "none"
  /\ Commit([St EXCEPT !.output = Call(input.op, classifyError(input.arg))])

InitClassify ==
  InitCall({DefaultSettings}, {Call("classifyError", e) : e \in ErrorTexts})

NextClassify == ClassifyError

SpecClassify == InitClassify /\ [][NextClassify]_vars

TimeoutsTried == 700     \* timeouts sent to the settings, in seconds

\* the timeouts validateSettings lets through, in seconds
TimeoutsAllowed ==
  {n \in 0..TimeoutsTried :
     validateSettings(OneField("downloadTimeout", Whole(n))).downloadTimeout
       = Whole(n)}

\* withTimeout(executeDownload(...), timeoutMs, 'Download') when the timer
\* fires, and the catch of the retry loop: classifyError(error.message)
TimeoutRaised ==
  /\ input.op = "withTimeout"
  /\ output.op = "none"
  /\ Commit([St EXCEPT !.output =
       Call(input.op, [message |-> TimedOutText(input.arg).raw,
                       classified |-> classifyError(TimedOutText(input.arg))])])

InitTimeoutRaised ==
  InitCall({DefaultSettings},
           {Call("withTimeout", n * 1000) : n \in TimeoutsAllowed})

NextTimeoutRaised == TimeoutRaised

SpecTimeoutRaised == InitTimeoutRaised /\ [][NextTimeoutRaised]_vars

(***************************************************************************)
(* Properties.                                                             *)
(***************************************************************************)
ActiveJobs == {i \in queue : download[i].status = "active"}
QueuedJobs == {i \in queue : download[i].status = "queued"}
InFlight == {i \in Ids : pipe[i].loop \in {"run", "sleep"}}
Cancelled(i) == i <= created /\ i \notin queue /\ download[i].status \in {"queued", "paused", "active"}

\* C1: with the configuration held fixed, the active set never grows beyond
\* maxConcurrent, whatever is added, cancelled, paused, resumed or settled.
C1_ActiveSetWithinMaxConcurrent ==
  Cardinality(activeDownloads) <= config.maxConcurrent

\* C1 witness: every slot is taken and a job is waiting for one.
C1_Witness ==
  /\ Cardinality(activeDownloads) = config.maxConcurrent
  /\ config.maxConcurrent = 2
  /\ QueuedJobs # {}

\* C2: with updateConfig among the operations, the number of jobs whose
\* status is 'active' is at most the configured maxConcurrent.
C2_ActiveStatusWithinConfigured ==
  Cardinality(ActiveJobs) <= config.maxConcurrent

\* C3: with maxConcurrent held constant, the pipelines launched and not yet
\* settled, those of cancelled jobs included, number at most maxConcurrent.
C3_PipelinesWithinMaxConcurrent ==
  Cardinality(InFlight) <= config.maxConcurrent

\* The jobs A, B, C of the scenario: priorities 0, 5, 0 in submission order.
ScenarioABC ==
  /\ created = 3
  /\ download[1].priority = 0
  /\ download[2].priority = 5
  /\ download[3].priority = 0

AdmissionOrder == [i \in 1..Len(admissions) |-> admissions[i].id]

IsPrefix(a, b) == Len(a) <= Len(b) /\ \A i \in 1..Len(a) : a[i] = b[i]

\* C4 as stated: A, B, C submitted to an idle queue with one slot become
\* active in the order B, A, C.
C4_AdmissionOrderBAC ==
  (ScenarioABC /\ Len(admissions) = 3) => AdmissionOrder = <<2, 1, 3>>

\* C4 amended: A is admitted by its own submission, the slot being free;
\* then B, then C.
C4_AdmissionOrderABC ==
  (created \in 1..3 /\ download[1].priority = 0
     /\ (created >= 2 => download[2].priority = 5)
     /\ (created >= 3 => download[3].priority = 0))
  => IsPrefix(AdmissionOrder, <<1, 2, 3>>)

\* C4 witness: the three jobs of the scenario have all been admitted, B and
\* C having waited together for the slot A held.
C4_Witness ==
  /\ ScenarioABC
  /\ Len(admissions) = 3
  /\ admissions[2].rivals = {3}

\* b would be served before a: higher priority, or the same priority and
\* submitted earlier (ids are handed out in submission order, and addedAt
\* never decreases along it)
ServedBefore(b, a) ==
  \/ download[b].priority > download[a].priority
  \/ /\ download[b].priority = download[a].priority
     /\ (download[b].addedAt < download[a].addedAt \/ b < a)

\* C5: at every admission, no job that was queued at that instant would be
\* served before the admitted one.
C5_AdmittedIsMaximal ==
  \A i \in 1..Len(admissions) :
    \A r \in admissions[i].rivals : ~ServedBefore(r, admissions[i].id)

\* C5 witness: a job was admitted ahead of an earlier submission of lower
\* priority, which has been paused since.
C5_Witness ==
  \E i \in 1..Len(admissions) : \E r \in admissions[i].rivals :
    /\ r < admissions[i].id
    /\ download[r].addedAt < download[admissions[i].id].addedAt
    /\ download[r].status = "paused"

\* C10: in every reachable state and for every id, cancel(id) returns true
\* exactly when the id is a key of the job table; then the id is in neither
\* the table, the active set nor the purge timers when the call returns;
\* otherwise the call changes nothing.
C10_CancelContract ==
  \A id \in Ids :
    LET r == cancel(St, id) IN
    /\ r.ret = (id \in queue)
    /\ r.ret => /\ id \notin r.queue
                /\ id \notin r.activeDownloads
                /\ id \notin r.cleanupTimers
    /\ ~r.ret => [r EXCEPT !.ret = FALSE] = St

\* C10 witness: cancel has removed an active job, and the table holds a
\* terminal job whose purge timer is pending and a paused one.
C10_Witness ==
  /\ \E i \in Ids : Cancelled(i) /\ download[i].status = "active"
  /\ \E i \in queue : download[i].status \in {"completed", "error"}
                      /\ i \in cleanupTimers
  /\ \E i \in queue : download[i].status = "paused"

\* The retryCount fields of the 'retrying' events sent for id, in order
RetryCounts(id) ==
  LET r == SelectSeq(events[id], LAMBDA e : e.status = "retrying")
  IN [i \in 1..Len(r) |-> r[i].retryCount]

\* C6: a job whose first k attempts fail with a retryable (network)
\* classification and whose attempt k+1 succeeds ends completed; exactly k
\* 'retrying' events have been sent, carrying retryCount 1..k in that order;
\* and the back-off before retry i is at least retryDelayBase * 2^(i-1).
C6_RetriesThenSuccess ==
  \A id \in Ids :
    pipe[id].loop = "resolved" =>
      LET k == pipe[id].attempt IN
      /\ Len(att[id]) = k + 1
      /\ \A j \in 1..k : att[id][j].failure.retryable
      /\ att[id][k + 1].failure = NoFailure
      /\ download[id].status = "completed"
      /\ RetryCounts(id) = [i \in 1..k |-> i]
      /\ Len(pipe[id].sleeps) = k
      /\ \A i \in 1..k : pipe[id].sleeps[i] >= RetryDelayBase * Pow2(i - 1)

C6_Witness ==
  \E id \in Ids :
    /\ pipe[id].loop = "resolved"
    /\ pipe[id].attempt = 2
    /\ \A j \in 1..2 : att[id][j].failure.type = "network"
    /\ pipe[id].sleeps[1] + pipe[id].sleeps[2] >= 3 * RetryDelayBase
    /\ pipe[id].sleeps[2] > 2 * RetryDelayBase

\* C7: a job never runs more than maxRetries + 1 attempts, and one whose
\* every attempt failed with a retryable classification has run exactly
\* maxRetries + 1 of them, has had exactly maxRetries 'retrying' events sent,
\* and has failed with the user message of its last failure's classification
\* (with maxRetries = 0: one attempt, no 'retrying' event).
C7_RetriesExhausted ==
  \A id \in Ids :
    /\ pipe[id].loop # "none" => Len(att[id]) <= pipe[id].maxRetries + 1
    /\ (/\ pipe[id].loop = "rejected"
        /\ \A j \in Attempts(id) : att[id][j].failure.retryable)
       => /\ Len(att[id]) = pipe[id].maxRetries + 1
          /\ RetryCounts(id) = [i \in 1..pipe[id].maxRetries |-> i]
          /\ pipe[id].thrown = att[id][Len(att[id])].failure.userMessage
          /\ download[id].status = "error"
          /\ download[id].error = pipe[id].thrown

C7_Witness ==
  \E id \in Ids :
    /\ pipe[id].loop = "rejected"
    /\ pipe[id].maxRetries = 2
    /\ \A j \in Attempts(id) : att[id][j].failure.retryable
    /\ att[id][1].failure.type = "network"
    /\ att[id][3].failure.type = "timeout"
    /\ att[id][3].phase # "ended"

\* C8: once attempt k has failed with a non-retryable classification,
\* attempt k is the last attempt started, the only 'retrying' events are
\* the k - 1 sent before it, and the job has failed with that
\* classification's user message, whatever maxRetries is (for k = 1 the
\* retry count is 0).
C8_NonRetryableFailsAtOnce ==
  \A id \in Ids : \A k \in Attempts(id) :
    (att[id][k].failure # NoFailure /\ ~att[id][k].failure.retryable) =>
      /\ k = Len(att[id])
      /\ pipe[id].loop = "rejected"
      /\ pipe[id].attempt = k - 1
      /\ RetryCounts(id) = [i \in 1..(k - 1) |-> i]
      /\ pipe[id].thrown = att[id][k].failure.userMessage
      /\ download[id].status = "error"
      /\ download[id].error = att[id][k].failure.userMessage

C8_Witness ==
  \E id \in Ids :
    /\ att[id] # << >>
    /\ att[id][1].failure.type = "video_private"
    /\ pipe[id].maxRetries >= 1
    /\ pipe[id].attempt = 0
    /\ RetryCounts(id) = << >>

ProgressStatuses == {"downloading", "converting", "retrying", "complete", "error"}

\* C9: after the cancellation of a job, by cancelDownload, cancel or
\* cancelAll, no event with status 'downloading', 'converting', 'retrying',
\* 'complete' or 'error' is sent for its id.
C9_NoEventAfterCancel ==
  \A id \in Ids : \A i, j \in DOMAIN events[id] :
    (i < j /\ events[id][i].status = "cancelled") =>
      events[id][j].status \notin ProgressStatuses

\* The 'cancelled' event has been emitted for id
WasCancelled(id) == \E i \in DOMAIN events[id] : events[id][i].status = "cancelled"

\* A subprocess of attempt k of id is alive
Live(id, k) == att[id][k].phase \in {"info", "download", "convert"}

\* C11: once cancelDownload(id) has been issued, in whatever phase, every
\* subprocess of the job that is alive has been sent a kill signal: the one
\* that was running has been terminated and none has been spawned since.
C11_CancelDownloadKillsPipeline ==
  \A id \in Ids :
    WasCancelled(id) =>
      \A k \in Attempts(id) : Live(id, k) => att[id][k].killed

\* The number of events with the given status sent for id
CountEvents(id, status) ==
  Cardinality({i \in DOMAIN events[id] : events[id][i].status = status})

\* C12: within one attempt, whichever of the extraction process's 'close'
\* and 'error' signals are delivered and in whatever order, there is one
\* terminal outcome: at most one 'complete' event, at most one history
\* record, never a 'complete' for an attempt that was rejected, and the
\* signal that comes second has no effect: after 'error', 'close' neither
\* starts a transcode nor writes a history record.
C12_OneTerminalOutcome ==
  \A id \in Ids :
    /\ CountEvents(id, "complete") <= 1
    /\ historyCalls[id] <= 1
    /\ \A k \in Attempts(id) :
         /\ (att[id][k].failure # NoFailure /\ k = Len(att[id]))
              => CountEvents(id, "complete") = 0
         /\ att[id][k].errored
              => /\ att[id][k].phase \in {"download", "ended"}
                 /\ historyCalls[id] = 0

Terminal == {"completed", "error"}

\* C13: in every reachable state, whatever mix of queued, paused, active
\* and terminal jobs the table holds, the table and the active set are both
\* empty when cancelAll() returns.
C13_CancelAllEmptiesTable ==
  LET r == cancelAll(St) IN
  /\ r.queue = {}
  /\ r.activeDownloads = {}

\* C13 witness: nothing is tracked any more, no purge timer is pending, and
\* a paused job, an active job and a terminal job are among those removed.
C13_Witness ==
  /\ queue = {}
  /\ activeDownloads = {}
  /\ cleanupTimers = {}
  /\ \E i, j, k \in 1..created :
       /\ download[i].status = "paused"
       /\ download[j].status = "active"
       /\ download[k].status \in Terminal

\* C14: a job that is queued or paused when the call that removes it from
\* the table (cancel or cancelAll) begins has had no pipeline launched for it
\* before the call, and has none when the call returns.
C14_WaitingJobCancelledUnlaunched ==
  [][\A id \in Ids :
       (/\ id \in queue
        /\ download[id].status \in {"queued", "paused"}
        /\ id \notin queue')
       => (pipe[id].loop = "none" /\ pipe'[id].loop = "none")]_vars

\* C15: in every reachable state and for every id, pause(id) returns true
\* exactly when the id is in the table with status 'queued', and the status
\* is then 'paused'; resume(id) returns true exactly when the id is in the
\* table with status 'paused', and the job is then queued again and has been
\* offered to the scheduler (it is queued or active, and no queued job is
\* left beside a free slot); a call that returns false changes nothing; and
\* a paused job is not in the active set and has had no pipeline launched.
C15_PauseResumeContract ==
  /\ \A id \in Ids :
       LET p == pause(St, id)
           r == resume(St, id)
       IN /\ p.ret = (id \in queue /\ download[id].status = "queued")
          /\ p.ret => /\ p.download[id].status = "paused"
                      /\ p.queue = queue
                      /\ p.activeDownloads = activeDownloads
          /\ ~p.ret => p = St
          /\ r.ret = (id \in queue /\ download[id].status = "paused")
          /\ r.ret => /\ r.download[id].status \in {"queued", "active"}
                      /\ r.queue = queue
                      /\ (Queued(r) # {} =>
                            Cardinality(r.activeDownloads) >= r.config.maxConcurrent)
          /\ ~r.ret => r = St
  /\ \A id \in queue :
       download[id].status = "paused" =>
         (id \notin activeDownloads /\ pipe[id].loop = "none")

\* C15 witness: a job has been admitted after one submitted later than it,
\* which did not have it for a rival: it was paused then, and resumed since.
C15_Witness ==
  \E a, b \in 1..Len(admissions) :
    /\ a < b
    /\ admissions[a].id > admissions[b].id
    /\ admissions[b].id \notin admissions[a].rivals

C17_ActiveSetIsActiveStatus ==
  activeDownloads = ActiveJobs

\* C17 witness: a job is active, another is paused, and the pipeline of a
\* third, cancelled while active, has settled since (its purge timer runs
\* though the table no longer holds it).
C17_Witness ==
  /\ activeDownloads # {}
  /\ \E i \in queue : download[i].status = "paused"
  /\ \E i \in cleanupTimers : i \notin queue /\ download[i].status \in Terminal

\* C18: a job whose status has become 'completed' or 'error' stays in the
\* table only as long as its purge timer is pending: every terminal job the
\* table holds has a timer that will remove it.
C18_TerminalJobAwaitsPurge ==
  \A id \in queue : download[id].status \in Terminal => id \in cleanupTimers

\* C19: every job whose status has become 'error', the case of the download
\* function not being set included, has its message on the job record,
\* has had exactly one 'error' event emitted, carrying that message, and
\* holds no slot.
C19_ErrorStoredAndEmittedOnce ==
  \A id \in Ids :
    download[id].status = "error" =>
      /\ download[id].error # NoMsg
      /\ CountEvents(id, "error") = 1
      /\ \A i \in DOMAIN events[id] :
           events[id][i].status = "error" =>
             events[id][i].error = download[id].error
      /\ id \notin activeDownloads

\* id was cancelled before any 'complete' event had been sent for it
CancelledUnfinished(id) ==
  \E i \in DOMAIN events[id] :
    /\ events[id][i].status = "cancelled"
    /\ \A j \in 1..(i - 1) : events[id][j].status # "complete"

\* C20: the history recorder has been called exactly once for every job
\* that has ended 'completed', and not at all for a job that has ended
\* 'error' or that was cancelled before it finished.
C20_HistoryOncePerCompletedJob ==
  \A id \in Ids :
    /\ (download[id].status = "completed" /\ ~CancelledUnfinished(id))
         => historyCalls[id] = 1
    /\ download[id].status = "error" => historyCalls[id] = 0
    /\ CancelledUnfinished(id) => historyCalls[id] = 0

\* C21: the retryCount of the job record is the number of attempts of the
\* job that have failed and been retried so far, and a job whose attempts
\* fail retryably fails for good exactly when one more retry would exceed
\* maxRetries.
C21_RecordCountsRetries ==
  \A id \in Ids :
    pipe[id].loop # "none" =>
      /\ download[id].retryCount = pipe[id].attempt
      /\ (/\ pipe[id].loop = "rejected"
          /\ att[id][Len(att[id])].failure.retryable)
         => pipe[id].attempt = pipe[id].maxRetries

\* a number within [lo, hi]
InRange(x, lo, hi) == x.k = "number" /\ lo * 100 <= x.v /\ x.v <= hi * 100

\* C22: for every partial update whose numeric fields are of type number,
\* the settings stored by updateDownloadSettings have maxConcurrentDownloads
\* in [1,5], maxRetries in [0,10], downloadTimeout in [60,600] and
\* bandwidthLimit in [0,100000], and every field absent from the update keeps
\* its previous value.
C22_StoredSettingsInRange ==
  output.op = "updateDownloadSettings" =>
    LET u == output.arg.updated
        c == output.arg.current
    IN /\ settings = u
       /\ InRange(u.maxConcurrentDownloads, 1, 5)
       /\ InRange(u.maxRetries, 0, 10)
       /\ InRange(u.downloadTimeout, 60, 600)
       /\ InRange(u.bandwidthLimit, 0, 100000)
       /\ \A f \in SettingsFields : input.arg[f] = Undefined => u[f] = c[f]

\* C23: after every settings update through the settings handler the queue
\* configuration has maxConcurrent = the stored maxConcurrentDownloads,
\* downloadTimeout = the stored downloadTimeout * 1000 ms and maxRetries =
\* the stored maxRetries if autoRetry is stored true and 0 otherwise, and
\* the queue has been processed with these values: no job is left waiting
\* beside a free slot.
C23_SettingsReachQueue ==
  \A partial \in LiveUpdates :
    LET r == settingsUpdateDownload(St, partial)
        u == r.settings
    IN /\ r.config.maxConcurrent = ToInt(u.maxConcurrentDownloads)
       /\ r.config.downloadTimeout = ToInt(u.downloadTimeout) * 1000
       /\ r.config.maxRetries =
            IF u.autoRetry = Bool(TRUE) THEN ToInt(u.maxRetries) ELSE 0
       /\ Queued(r) # {} =>
            Cardinality(r.activeDownloads) >= r.config.maxConcurrent

\* C23 witness: updates have stored autoRetry false beside a positive
\* maxRetries and a clamped timeout, the queue runs with no retries and the
\* 60 s timeout, and an update that raised maxConcurrent admitted job 2
\* while job 3 was waiting with it.
C23_Witness ==
  /\ settings.autoRetry = Bool(FALSE)
  /\ settings.maxRetries = Whole(MaxRetriesBound)
  /\ settings.downloadTimeout = Whole(60)
  /\ config.maxRetries = 0
  /\ config.downloadTimeout = 60000
  /\ Len(admissions) >= 2
  /\ admissions[2] = [id |-> 2, rivals |-> {3}]
  /\ activeDownloads = {1, 2}

\* every character of t is white space
Blank(t) == \A i \in 1..Len(t) : SubSeq(t, i, i) \in Whitespace

\* C24: at the submission boundary a source that is not a string, is empty
\* or holds only white space is rejected with an error and no job is added;
\* for any other source the options handed on are: the quality sent if it is
\* one of 128, 192, 256, 320 and 320 otherwise; the speed sent if it is a
\* number in (0,3] and 1 otherwise; the rateLimit sent if it is a number in
\* [0,100000] and the bandwidthLimit setting otherwise.
C24_SubmissionBoundary ==
  /\ \A c \in StartCalls :
       (c[1].k # "string" \/ Blank(c[1].s)) =>
         LET r == downloadStart(St, c[1], c[2], c[3])
         IN /\ r.ret.error # NoMsg
            /\ r.ret.id = NoId
            /\ r.queue = queue
            /\ r.download = download
            /\ r.created = created
  /\ (output.op = "download:start" /\ output.arg.id # NoId) =>
       LET sent == input.arg.options
           passed == output.arg.options
       IN /\ input.arg.url.k = "string"
          /\ ~Blank(input.arg.url.s)
          /\ output.arg.id \in 1..created
          /\ passed.quality =
               IF /\ sent.obj
                  /\ sent.quality.k = "string"
                  /\ sent.quality.s \in {"128", "192", "256", "320"}
               THEN sent.quality ELSE Str("320")
          /\ passed.speed =
               IF /\ sent.obj
                  /\ sent.speed.k = "number"
                  /\ 0 < sent.speed.v
                  /\ sent.speed.v <= 300
               THEN sent.speed ELSE Whole(1)
          /\ passed.rateLimit =
               IF /\ sent.obj
                  /\ sent.rateLimit.k = "number"
                  /\ 0 <= sent.rateLimit.v
                  /\ sent.rateLimit.v <= 10000000
               THEN sent.rateLimit ELSE settings.bandwidthLimit

\* C24 witness: a submission with speed 3.01 and no rateLimit, made while
\* the bandwidthLimit setting is 500, has put a job in the table with speed
\* 1 and rateLimit 500 and the quality as sent.
C24_Witness ==
  /\ output.op = "download:start"
  /\ input.arg.options.speed = Num(301)
  /\ input.arg.options.rateLimit = Undefined
  /\ output.arg.options =
       [quality |-> Str("192"), speed |-> Whole(1), rateLimit |-> Whole(500)]
  /\ output.arg.id \in queue

\* C25: a download requested while the destination volume has less than
\* 500 MB free fails with an error and changes nothing: no job is added, no
\* progress event is emitted, no pipeline (and so no subprocess) is started.
C25_LowDiskRejects ==
  \A c \in StartCalls :
    c[3].available < MIN_DISK_SPACE_BYTES =>
      LET r == downloadStart(St, c[1], c[2], c[3])
      IN /\ r.ret.error # NoMsg
         /\ r.ret.id = NoId
         /\ r.queue = queue
         /\ r.download = download
         /\ r.activeDownloads = activeDownloads
         /\ r.events = events
         /\ r.pipe = pipe
         /\ r.att = att
         /\ r.activeProcesses = activeProcesses

RECURSIVE ProductN(_)
ProductN(filters) ==
  IF filters = << >> THEN 1 ELSE Head(filters).n * ProductN(Tail(filters))

RECURSIVE ProductD(_)
ProductD(filters) ==
  IF filters = << >> THEN 1 ELSE 100 * Head(filters).d * ProductD(Tail(filters))

\* C26: for every speed the submission boundary accepts (0 < speed <= 3,
\* speed # 1) the tempo filter chain is not empty, every stage factor lies
\* in [0.5, 2.0] and the product of the factors is the speed.
C26_TempoChain ==
  output.op = "adjustSpeed" =>
    LET filters == output.arg IN
    /\ filters # << >>
    /\ \A i \in 1..Len(filters) :
         /\ 50 * filters[i].d <= filters[i].n
         /\ filters[i].n <= 200 * filters[i].d
    /\ 100 * ProductN(filters) = input.arg * ProductD(filters)

\* C27: for every title sanitizeFilename returns a non-empty string of at
\* most 80 characters that holds none of < > : " / \ | ? * and no control
\* character (U+0000-U+001F) and does not end with a dot or a space; a title
\* of which nothing is left yields 'download'.
C27_SafeFilename ==
  output.op = "sanitizeFilename" =>
    LET safe == output.arg
        title == input.arg.filename
    IN /\ safe # ""
       /\ Len(safe) <= 80
       /\ \A i \in 1..Len(safe) :
            SubSeq(safe, i, i) \notin IllegalChars \cup ControlChars
       /\ SubSeq(safe, Len(safe), Len(safe)) \notin {".", " "}
       /\ (\A i \in 1..Len(title) : i <= 80 => SubSeq(title, i, i) \in {".", " "})
            => safe = "download"

\* C27 witness: a title of 79 letters followed by dot, space, dot was cut
\* to 80 characters and then lost the dot the cut had left at its end.
C27_Witness ==
  /\ output.op = "sanitizeFilename"
  /\ input.arg.filename = Repeat("x", 79) \o ". ."
  /\ output.arg = Repeat("x", 79)

\* C28: classifyError answers retryable exactly when the kind it answers is
\* network, rate_limited or timeout; a text no pattern matches is of kind
\* unknown, not retryable, and its message is the text itself, cut to 200
\* characters and followed by '...' when it is longer.
C28_RetryableKinds ==
  output.op = "classifyError" =>
    LET c == output.arg
        raw == input.arg.raw
    IN /\ c.retryable <=> c.type \in {"network", "rate_limited", "timeout"}
       /\ input.arg.hits = {} =>
            /\ c.type = "unknown"
            /\ ~c.retryable
            /\ Len(raw) <= 200 => c.userMessage = raw
            /\ Len(raw) > 200 =>
                 /\ Len(c.userMessage) = 203
                 /\ SubSeq(c.userMessage, 1, 200) = SubSeq(raw, 1, 200)
                 /\ SubSeq(c.userMessage, 201, 203) = "..."

\* C28 witness: a text of 215 characters that no pattern matches was
\* classified unknown and its message is the first 200 characters and '...'.
C28_Witness ==
  /\ output.op = "classifyError"
  /\ input.arg.raw = Repeat("x", 199) \o "\n" \o "Unsupported URL"
  /\ output.arg = [type |-> "unknown", retryable |-> FALSE,
                   userMessage |-> Repeat("x", 199) \o "\n" \o "..."]

\* rows of the table whose kind is terminal
TerminalRows == {row \in 1..Len(Patterns) : ~Patterns[row].retryable}

\* C29: a text that matches the pattern of a terminal kind (video_not_found,
\* video_private, age_restricted, disk_full, cancelled, ffmpeg_error) is
\* classified as such a kind it matches, not retryable, whatever retryable
\* pattern it matches besides.
C29_TerminalNeverMasked ==
  output.op = "classifyError" =>
    LET matched == input.arg.hits \cap TerminalRows IN
    matched # {} =>
      /\ ~output.arg.retryable
      /\ output.arg.type \in {Patterns[row].type : row \in matched}

\* C30: for every downloadTimeout from 60 to 600 seconds the error raised
\* when the attempt exceeds it is classified as timeout, retryable.
C30_TimeoutIsTimeout ==
  output.op = "withTimeout" =>
    /\ output.arg.classified.type = "timeout"
    /\ output.arg.classified.retryable

\* C31: whenever a job goes from queued to active, the retry ceiling its
\* pipeline is started with is the maxRetries the queue configuration holds
\* at that moment (so an update between submission and admission counts).
C31_CeilingReadAtAdmission ==
  [][\A id \in Ids :
       (download[id].status = "queued" /\ download'[id].status = "active"
          /\ pipe'[id].loop # "none")
         => pipe'[id].maxRetries = config'.maxRetries]_vars

(***************************************************************************)
(* Progress of one attempt (downloader.ts executeDownload, adjustSpeed).   *)
(*                                                                         *)
(* The numbers parsed from the subprocesses' output are kept exactly, as   *)
(* fractions [n, d] with d > 0; [n |-> 0, d |-> 0] stands for NaN.  The    *)
(* regular expressions are evaluated on the characters.                    *)
(***************************************************************************)
Digits == {"0", "1", "2", "3", "4", "5", "6", "7", "8", "9"}

\* \w
WordChars ==
  Digits \cup {"_"}
    \cup {SubSeq(UpperLetters, i, i) : i \in 1..Len(UpperLetters)}
    \cup {SubSeq(LowerLetters, i, i) : i \in 1..Len(LowerLetters)}

\* \s
SpaceChars == {" ", "\t", "\n", "\r", "\f"}

CharAt(t, i) == IF i \in 1..Len(t) THEN SubSeq(t, i, i) ELSE ""

\* the first position from i on whose character is not one of chars
RECURSIVE RunEnd(_, _, _)
RunEnd(t, i, chars) ==
  IF CharAt(t, i) \in chars THEN RunEnd(t, i + 1, chars) ELSE i

DigitOf == [c \in Digits |-> CHOOSE n \in 0..9 : ToString(n) = c]

RECURSIVE DigitsValue(_)
DigitsValue(t) ==
  IF t = "" THEN 0
  ELSE DigitsValue(SubSeq(t, 1, Len(t) - 1)) * 10 + DigitOf[CharAt(t, Len(t))]

RECURSIVE Pow10(_)
Pow10(n) == IF n = 0 THEN 1 ELSE 10 * Pow10(n - 1)

RECURSIVE Gcd(_, _)
Gcd(a, b) == IF b = 0 THEN a ELSE Gcd(b, a % b)

\* n / d in lowest terms
Fraction(n, d) ==
  LET g == Gcd(IF n < 0 THEN 0 - n ELSE n, d)
  IN IF g = 0 THEN [n |-> 0, d |-> d] ELSE [n |-> n \div g, d |-> d \div g]

NaNFraction == [n |-> 0, d |-> 0]
FractionLessEq(a, b) == a.d # 0 /\ b.d # 0 /\ a.n * b.d <= b.n * a.d

\* parseFloat on white space, a sign, digits and a fraction part (exponents
\* do not occur in the texts parsed here)
parseFloat(t) ==
  LET a == RunEnd(t, 1, SpaceChars)
      b == IF CharAt(t, a) \in {"-", "+"} THEN a + 1 ELSE a
      c == RunEnd(t, b, Digits)
      e == IF CharAt(t, c) = "." THEN RunEnd(t, c + 1, Digits) ELSE c
      whole == SubSeq(t, b, c - 1)
      part == IF e > c THEN SubSeq(t, c + 1, e - 1) ELSE ""
      size == DigitsValue(whole) * Pow10(Len(part)) + DigitsValue(part)
  IN IF whole = "" /\ part = "" THEN NaNFraction
     ELSE Fraction(IF CharAt(t, a) = "-" THEN 0 - size ELSE size,
                   Pow10(Len(part)))

\* x || 0
OrZero(x) == IF x.d = 0 \/ x.n = 0 THEN Fraction(0, 1) ELSE x

\* duration.split(':')
RECURSIVE Split(_)
Split(t) ==
  LET colons == {i \in 1..Len(t) : CharAt(t, i) = ":"} IN
  IF colons = {} THEN <<t>>
  ELSE LET i == CHOOSE i \in colons : \A j \in colons : i <= j
       IN <<SubSeq(t, 1, i - 1)>> \o Split(SubSeq(t, i + 1, Len(t)))

\* parseDuration (a string or nothing is handed in): seconds
parseDuration(duration) ==
  IF duration = "" THEN Fraction(0, 1)
  ELSE LET parts == Split(duration)
           v(i) == OrZero(parseFloat(parts[i]))
           sum3(h, m, s) ==
             Fraction(h.n * 3600 * m.d * s.d + m.n * 60 * h.d * s.d
                        + s.n * h.d * m.d,
                      h.d * m.d * s.d)
       IN IF Len(parts) = 3 THEN sum3(v(1), v(2), v(3))
          ELSE IF Len(parts) = 2 THEN sum3(Fraction(0, 1), v(1), v(2))
          ELSE IF Len(parts) = 1 THEN v(1)
          ELSE Fraction(0, 1)

parseTimemark(timemark) ==
  IF timemark = "" THEN Fraction(0, 1) ELSE parseDuration(timemark)

NoMatch == [end |-> 0, group |-> ""]

\* /(\d+(?:\.\d+)?)%/ tried at position s: the position after the match
\* and the text of group 1
PercentAt(t, s) ==
  LET a == RunEnd(t, s, Digits)
      b == IF CharAt(t, a) = "." THEN RunEnd(t, a + 1, Digits) ELSE a
  IN IF a = s THEN NoMatch
     ELSE IF b > a + 1 /\ CharAt(t, b) = "%"
          THEN [end |-> b + 1, group |-> SubSeq(t, s, b - 1)]
     ELSE IF CharAt(t, a) = "%"
          THEN [end |-> a + 1, group |-> SubSeq(t, s, a - 1)]
     ELSE NoMatch

\* (?:\s+of\s+[\d.]+\w+) tried at position p: the position after it, or 0
OfSizeAt(t, p) ==
  LET a == RunEnd(t, p, SpaceChars)
      b == RunEnd(t, a + 2, SpaceChars)
      x == RunEnd(t, b, Digits \cup {"."})
      w == RunEnd(t, x, WordChars)
  IN IF a > p /\ At(t, a, "of") /\ b > a + 2
        /\ \/ x > b /\ w > x
           \/ x > b + 1 /\ CharAt(t, x - 1) \in Digits
     THEN w ELSE 0

\* \s+at\s+([\d.]+\s*\w+\/s) matches at position p
AtSpeedAt(t, p) ==
  LET a == RunEnd(t, p, SpaceChars)
      b == RunEnd(t, a + 2, SpaceChars)
      x == RunEnd(t, b, Digits \cup {"."})
      y == RunEnd(t, x, SpaceChars)
      w == RunEnd(t, y, WordChars)
  IN /\ a > p /\ At(t, a, "at") /\ b > a + 2 /\ x > b
     /\ At(t, w, "/s")
     /\ \/ w > y
        \/ y = x /\ x > b + 1 /\ CharAt(t, x - 1) \in Digits

\* the progress expression
\* /(\d+(?:\.\d+)?)%(?:\s+of\s+[\d.]+\w+)?\s+at\s+([\d.]+\s*\w+\/s)(...)?/
\* tried at position s
ProgressAt(t, s) ==
  LET m == PercentAt(t, s) IN
  IF m.end = 0 THEN NoMatch
  ELSE IF \/ OfSizeAt(t, m.end) # 0 /\ AtSpeedAt(t, OfSizeAt(t, m.end))
          \/ AtSpeedAt(t, m.end)
       THEN m ELSE NoMatch

\* line.match(expression): the leftmost match
FirstProgress(line) ==
  LET found == {s \in 1..Len(line) : ProgressAt(line, s).end # 0} IN
  IF found = {} THEN NoMatch ELSE ProgressAt(line, SetMin(found))

FirstPercent(line) ==
  LET found == {s \in 1..Len(line) : PercentAt(line, s).end # 0} IN
  IF found = {} THEN NoMatch ELSE PercentAt(line, SetMin(found))

NoEvents == << >>

ProgressEvent(status, raw, percent) ==
  [status |-> status, raw |-> raw, percent |-> percent]

\* percent * 0.7
Compress(percent) == Fraction(percent.n * 7, percent.d * 10)

\* downloadProcess.stdout.on('data'): the events sent for one chunk.  speed
\* is options.speed in hundredths.
stdoutData(line, speed) ==
  LET progressMatch == FirstProgress(line)
      percentMatch == FirstPercent(line)
      sent(m) ==
        LET percent == parseFloat(m.group) IN
        <<ProgressEvent("downloading", percent,
                        IF speed # 100 THEN Compress(percent) ELSE percent)>>
  IN IF progressMatch.end # 0 THEN sent(progressMatch)
     ELSE IF percentMatch.end # 0 THEN sent(percentMatch)
     ELSE NoEvents

\* 70 + percent * 0.3
Stretch(percent) == Fraction(70 * percent.d * 10 + percent.n * 3, percent.d * 10)

\* adjustSpeed .on('progress'): the events sent for one timemark.  duration
\* is what codecData left, in seconds.
ffmpegProgress(timemark, duration) ==
  IF duration.n > 0 /\ timemark # ""
  THEN LET currentTime == parseTimemark(timemark)
           ratio == Fraction(currentTime.n * duration.d * 100,
                             currentTime.d * duration.n)
           percent == IF FractionLessEq(ratio, Fraction(100, 1))
                      THEN ratio ELSE Fraction(100, 1)
       IN <<ProgressEvent("converting", percent, Stretch(percent))>>
  ELSE NoEvents

\* One attempt under observation.  input.arg is what the subprocesses will
\* print: [speed, stdout, codec, timemarks]; output.arg is the attempt:
\*   phase     info | download | convert | done
\*   read      chunks of stdout handled so far
\*   marks     progress reports of ffmpeg handled so far
\*   duration  the variable duration of adjustSpeed
\*   events    what onProgress was called with, in order
NewProgress ==
  [phase |-> "info", read |-> 0, marks |-> 0, duration |-> Fraction(0, 1),
   events |-> NoEvents]

Attempt == IF output.op = "none" THEN NewProgress ELSE output.arg

Observe(attempt) ==
  /\ input.op = "attempt"
  /\ Commit([St EXCEPT !.output = Call(input.op, attempt)])

\* infoProcess.on('close'), code 0 and a title parsed
InfoParsed ==
  /\ Attempt.phase = "info"
  /\ Observe([Attempt EXCEPT
        !.phase = "download",
        !.events = Append(@, ProgressEvent("downloading", Fraction(0, 1),
                                           Fraction(0, 1)))])

\* downloadProcess.stdout.on('data')
StdoutData ==
  /\ Attempt.phase = "download"
  /\ Attempt.read < Len(input.arg.stdout)
  /\ Observe([Attempt EXCEPT
        !.read = @ + 1,
        !.events = @ \o stdoutData(input.arg.stdout[Attempt.read + 1],
                                   input.arg.speed)])

\* downloadProcess.on('close'), code 0 and the file there: up to the call
\* of adjustSpeed, or to the end for speed 1
DownloadClosed ==
  /\ Attempt.phase = "download"
  /\ Attempt.read = Len(input.arg.stdout)
  /\ Observe(
       IF input.arg.speed # 100
       THEN [Attempt EXCEPT
               !.phase = "convert",
               !.events = Append(@, ProgressEvent("converting", Fraction(0, 1),
                                                  Fraction(70, 1)))]
       ELSE [Attempt EXCEPT
               !.phase = "done",
               !.events = Append(@, ProgressEvent("complete", Fraction(100, 1),
                                                  Fraction(100, 1)))])

\* adjustSpeed .on('codecData')
CodecData ==
  /\ Attempt.phase = "convert"
  /\ Attempt.marks = 0
  /\ Attempt.duration = Fraction(0, 1)
  /\ input.arg.codec # ""
  /\ parseDuration(input.arg.codec) # Fraction(0, 1)
  /\ Observe([Attempt EXCEPT !.duration = parseDuration(input.arg.codec)])

\* adjustSpeed .on('progress')
FfmpegProgress ==
  /\ Attempt.phase = "convert"
  /\ Attempt.marks < Len(input.arg.timemarks)
  /\ Observe([Attempt EXCEPT
        !.marks = @ + 1,
        !.events = @ \o ffmpegProgress(input.arg.timemarks[Attempt.marks + 1],
                                       Attempt.duration)])

\* adjustSpeed .on('end') and the rest of the close handler
FfmpegEnd ==
  /\ Attempt.phase = "convert"
  /\ Attempt.marks = Len(input.arg.timemarks)
  /\ Observe([Attempt EXCEPT
        !.phase = "done",
        !.events = Append(@, ProgressEvent("complete", Fraction(100, 1),
                                           Fraction(100, 1)))])

\* What yt-dlp prints on stdout with --progress --newline for the template
\* <safeTitle>_temp.%(ext)s: the destination, then progress lines.
DestinationLine(safeTitle) ==
  "[download] Destination: /music/" \o safeTitle \o "_temp.webm"

ProgressLines ==
  <<"[download]   0.0% of 5.23MiB at 2.34MiB/s ETA 00:02",
    "[download]  45.2% of 5.23MiB at 2.34MiB/s ETA 00:01",
    "[download] 100% of 5.23MiB in 00:02">>

StdoutScripts ==
  {<<DestinationLine(sanitizeFilename(title, FALSE))>> \o ProgressLines :
      title \in {"Wolf", "50% Wolf", "200% Wolf"}}
    \cup {<<"[download]  45.2% of 5.23MiB at 2.34MiB/s ETA 00:01",
            "[download]  12.5% of ~7.10MiB at 950.12KiB/s ETA 00:05">>,
          <<"[youtube] Extracting URL", "[download] 99.9%">>}

TimemarkScripts ==
  {<<"00:00:30.00", "00:01:00.50", "00:02:00.00">>,
   <<"N/A", "00:01:00.50", "00:02:10.00">>,
   <<"-00:00:00.05", "00:00:59">>}

Attempts32 ==
  {[speed |-> speed, stdout |-> stdout, codec |-> codec, timemarks |-> marks] :
      speed \in {100, 150}, stdout \in StdoutScripts,
      codec \in {"00:02:00.00", "N/A"}, marks \in TimemarkScripts}

InitProgress ==
  InitCall({DefaultSettings}, {Call("attempt", a) : a \in Attempts32})

NextProgress ==
  \/ InfoParsed
  \/ StdoutData
  \/ DownloadClosed
  \/ CodecData
  \/ FfmpegProgress
  \/ FfmpegEnd

SpecProgress == InitProgress /\ [][NextProgress]_vars

\* the events of one stage, in order
RECURSIVE Stage(_, _)
Stage(evs, status) ==
  IF evs = << >> THEN << >>
  ELSE IF Head(evs).status = status
       THEN <<Head(evs)>> \o Stage(Tail(evs), status)
       ELSE Stage(Tail(evs), status)

NonDecreasing(seq, field) ==
  \A i \in 1..(Len(seq) - 1) : FractionLessEq(seq[i][field], seq[i + 1][field])

\* C32: in an attempt with speed # 1 every downloading event has a percent
\* in [0, 70], which is the raw percent times 0.7, every converting event
\* has a percent in [70, 100], and the percents sent do not decrease if the
\* raw percents of each stage do not; with speed 1 the raw download percent
\* is sent as it is.
C32_ProgressRanges ==
  output.op = "attempt" =>
    LET log == output.arg.events IN
    /\ \A i \in 1..Len(log) :
         LET e == log[i] IN
         /\ (e.status = "downloading" /\ input.arg.speed # 100) =>
              /\ FractionLessEq(Fraction(0, 1), e.percent)
              /\ FractionLessEq(e.percent, Fraction(70, 1))
              /\ e.percent.n * e.raw.d * 10 = e.raw.n * 7 * e.percent.d
         /\ e.status = "converting" =>
              /\ FractionLessEq(Fraction(70, 1), e.percent)
              /\ FractionLessEq(e.percent, Fraction(100, 1))
         /\ (e.status = "downloading" /\ input.arg.speed = 100) =>
              e.percent = e.raw
    /\ (input.arg.speed # 100
          /\ NonDecreasing(Stage(log, "downloading"), "raw")
          /\ NonDecreasing(Stage(log, "converting"), "raw"))
         => NonDecreasing(log, "percent")

\* C33: whenever an attempt fails after its download process was started
\* (the extractor exits with an error or cannot run, the transcode or the
\* rename fails, the attempt times out), cleanupTempFiles has been called
\* for the attempt by the time its error reaches the retry loop.
C33_TempFileCleanedOnFailure ==
  [][\A id \in Ids : \A k \in 1..Len(att[id]) :
       (/\ Len(att'[id]) >= k
        /\ att[id][k].phase \in {"download", "convert"}
        /\ att[id][k].failure.type = "none"
        /\ att'[id][k].failure.type # "none")
         => att'[id][k].cleaned]_vars

(***************************************************************************)
(* The files of two attempts that run side by side (downloader.ts          *)
(* executeDownload, cleanupTempFiles).                                     *)
(*                                                                         *)
(* input.arg is [titles, speeds], what the metadata of the two jobs holds  *)
(* and the speeds asked for; output.arg is                                 *)
(*   jobs   per job: phase (info | download | done | failed) and the paths *)
(*          its attempt computed                                           *)
(*   files  the paths that exist in outputDir                              *)
(*   ops    the file operations made, in order: [by, op, path]             *)
(***************************************************************************)
Pair == {1, 2}

NoPaths == [temp |-> "", out |-> ""]

\* tempFile (with the extension the extractor leaves) and outputFile
PathsOf(videoTitle) ==
  LET safeTitle == sanitizeFilename(videoTitle, FALSE)
  IN [temp |-> "/music/" \o safeTitle \o "_temp.mp3",
      out |-> "/music/" \o safeTitle \o ".mp3"]

NewFiles ==
  [jobs |-> [j \in Pair |-> [phase |-> "info", paths |-> NoPaths]],
   files |-> {},
   ops |-> << >>]

Files == IF output.op = "none" THEN NewFiles ELSE output.arg

FileOp(by, op, path) == [by |-> by, op |-> op, path |-> path]

ObserveFiles(f) ==
  /\ input.op = "files"
  /\ Commit([St EXCEPT !.output = Call(input.op, f)])

\* infoProcess.on('close') with a title: the paths are computed and the
\* download process is spawned with -o tempFile
TitleParsed(j) ==
  /\ Files.jobs[j].phase = "info"
  /\ LET paths == PathsOf(input.arg.titles[j]) IN
     ObserveFiles([Files EXCEPT
        !.jobs[j] = [phase |-> "download", paths |-> paths],
        !.files = @ \cup {paths.temp},
        !.ops = Append(@, FileOp(j, "write", paths.temp))])

\* downloadProcess.on('close') with a code other than 0, or on('error'):
\* cleanupTempFiles
DownloadFailed(j) ==
  /\ Files.jobs[j].phase = "download"
  /\ LET paths == Files.jobs[j].paths IN
     ObserveFiles(
       IF paths.temp \in Files.files
       THEN [Files EXCEPT !.jobs[j].phase = "failed",
                          !.files = @ \ {paths.temp},
                          !.ops = Append(@, FileOp(j, "unlink", paths.temp))]
       ELSE [Files EXCEPT !.jobs[j].phase = "failed"])

\* downloadProcess.on('close') with code 0, everything after it succeeding:
\* adjustSpeed saves outputFile and the temporary file is unlinked, or (for
\* speed 1) the temporary file is renamed to outputFile
DownloadSaved(j) ==
  /\ Files.jobs[j].phase = "download"
  /\ LET paths == Files.jobs[j].paths IN
     ObserveFiles(
       IF paths.temp \notin Files.files
       THEN [Files EXCEPT !.jobs[j].phase = "done"]
       ELSE IF input.arg.speeds[j] # 100
       THEN [Files EXCEPT
               !.jobs[j].phase = "done",
               !.files = (@ \cup {paths.out}) \ {paths.temp},
               !.ops = @ \o <<FileOp(j, "write", paths.out),
                              FileOp(j, "unlink", paths.temp)>>]
       ELSE [Files EXCEPT
               !.jobs[j].phase = "done",
               !.files = (@ \cup {paths.out}) \ {paths.temp},
               !.ops = Append(@, FileOp(j, "rename", paths.temp))])

\* titles of which some sanitize to the same name
PairTitles == {"Song", "Song?", "Song*", "Other", "AC/DC Live", "AC\\DC Live"}

InitFiles ==
  InitCall({DefaultSettings},
           {Call("files", [titles |-> <<a, b>>, speeds |-> <<100, s>>]) :
              a \in PairTitles, b \in PairTitles, s \in {100, 150}})

NextFiles ==
  \E j \in Pair :
    \/ TitleParsed(j)
    \/ DownloadFailed(j)
    \/ DownloadSaved(j)

SpecFiles == InitFiles /\ [][NextFiles]_vars

\* C34: while two jobs are both downloading, neither makes a file
\* operation on a path that is the temporary or the output file of the
\* other, whatever their titles.
C34_NoForeignFileOperation ==
  [][\A n \in (Len(Files.ops) + 1)..Len(Files'.ops) :
       \A i \in Pair \ {Files'.ops[n].by} :
         Files.jobs[i].phase = "download"
           => Files'.ops[n].path \notin {Files.jobs[i].paths.temp,
                                        Files.jobs[i].paths.out}]_vars

\* C35: on Windows the name sanitizeFilename returns is never one of the
\* reserved device names CON, PRN, AUX, NUL, COM1-9, LPT1-9, in any case
\* of letters, whatever the title ends with.
C35_NoReservedNameOnWindows ==
  (output.op = "sanitizeFilename" /\ input.arg.isWindows)
    => Upper(output.arg) \notin
         {"CON", "PRN", "AUX", "NUL"}
           \cup {"COM" \o ToString(n) : n \in 1..9}
           \cup {"LPT" \o ToString(n) : n \in 1..9}

\* C36: for every job at most one attempt has a subprocess alive, and once
\* the pipeline has rejected no subprocess of the job is alive: an attempt
\* the timer of withTimeout has overtaken runs no longer when its successor
\* starts or the job has failed.
C36_OneAttemptAlive ==
  \A id \in Ids :
    /\ Cardinality({k \in Attempts(id) : Live(id, k)}) <= 1
    /\ pipe[id].loop = "rejected" => \A k \in Attempts(id) : ~Live(id, k)

\* C37: for every job, a 'complete' or 'error' event is the last progress
\* event ever sent for it, over all its attempts: there is at most one of
\* them and nothing follows it.
C37_TerminalEventIsLast ==
  \A id \in Ids : \A i \in DOMAIN events[id] : \A j \in DOMAIN events[id] :
    (i < j /\ events[id][i].status \in {"complete", "error"})
      => events[id][j].status \notin ProgressStatuses

(***************************************************************************)
(* Progress of the queue under fair delivery of events.                    *)
(***************************************************************************)
SubmittedJobs == 2     \* submissions made in all

\* what the subprocesses of the attempts can do
ProcessEvent ==
  \E id \in Ids, k \in 1..(MaxRetriesBound + 1) :
    \/ \E outcome \in {"ok", "fail"} :
         InfoClose(id, k, outcome, ErrorText("read ECONNRESET"), 0)
    \/ \E code \in {"ok", "fail"} :
         DownloadClose(id, k, code, ErrorText("Video unavailable"), TRUE, 0)
    \/ ConvertEnd(id, k)
    \/ ConvertError(id, k, ErrorText("Conversion failed!"), 0)

\* the timers of withTimeout, of sleepWithJitter and of the purge
TimerEvent ==
  \E id \in Ids :
    \/ \E k \in 1..(MaxRetriesBound + 1) : AttemptTimeout(id, k, 0)
    \/ SleepDone(id, 0)
    \/ CleanupTimerFire(id)

InitEventually == InitWith({1}, {1}, TRUE, FALSE)

NextEventually ==
  \/ created < SubmittedJobs /\ \E speed \in Speeds : Add(speed, 0, 1)
  \/ ProcessEvent
  \/ TimerEvent

\* An event is due: a timer is pending or a subprocess is alive.  These
\* are the guards of the actions of ProcessEvent and TimerEvent, so Due is
\* ENABLED <<ProcessEvent \/ TimerEvent>>_vars.
Due ==
  \E id \in Ids :
    \/ pipe[id].loop = "sleep"
    \/ id \in cleanupTimers
    \/ \E k \in Attempts(id) : att[id][k].wt = "pending" \/ Live(id, k)

\* A step that delivers an event: of the steps of NextEventually, those
\* that hand out no id.
Delivered == created' = created

\* Node's event loop runs every callback that is due, so delivery is
\* weakly fair: WF_vars(ProcessEvent \/ TimerEvent), written with Due for
\* its ENABLED and Delivered for its steps.
SpecEventually ==
  /\ InitEventually
  /\ [][NextEventually]_vars
  /\ ([]<>(~Due) \/ []<><<Delivered>>_vars)

WasAdmitted(id) == \E a \in DOMAIN admissions : admissions[a].id = id

\* C38: with maxConcurrent >= 1, finitely many submissions and every
\* deliverable process and timer event delivered in the end, a job that is
\* queued is eventually admitted and an admitted job eventually has status
\* 'completed' or 'error'.
C38_EveryJobSettles ==
  \A id \in Ids :
    /\ (download[id].status = "queued") ~> WasAdmitted(id)
    /\ WasAdmitted(id) ~> (download[id].status \in Terminal)

\* C38 witness: job 2 waited while job 1 ran, job 1 timed out in both its
\* attempts and failed, job 2 was admitted after it and has completed.
C38_Witness ==
  /\ admissions = <<[id |-> 1, rivals |-> {}], [id |-> 2, rivals |-> {}]>>
  /\ pipe[1].maxRetries = 1
  /\ Len(att[1]) = 2
  /\ \A k \in 1..2 : att[1][k].failure.type = "timeout"
  /\ download[1].status = "error"
  /\ download[2].status = "completed"

(***************************************************************************)
(* The download history (history.ts).                                      *)
(*                                                                         *)
(* A stored item is [id, outputPath, timestamp, call]: call, which the     *)
(* program does not keep, is the number of the call that added the item.   *)
(* input.arg is the sequence of calls made, each [op, id, outputPath, dt]  *)
(* with dt the time that passed before it; output.arg is [done, history]:  *)
(* the number of calls made so far and store.get('history').               *)
(***************************************************************************)
MAX_HISTORY_ITEMS == 50

\* history.filter((h) => h.outputPath !== item.outputPath)
WithoutPath(history, outputPath) ==
  SelectSeq(history, LAMBDA h : h.outputPath # outputPath)

\* .slice(0, MAX_HISTORY_ITEMS)
Slice(items) ==
  IF Len(items) > MAX_HISTORY_ITEMS THEN SubSeq(items, 1, MAX_HISTORY_ITEMS)
  ELSE items

\* (as addToHistory, but an item with the same outputPath is left in)
addToHistoryMutant(history, newItem) == Slice(<<newItem>> \o history)

\* addToHistory(item): the value handed to store.set
addToHistory(history, newItem) ==
  Slice(<<newItem>> \o WithoutPath(history, newItem.outputPath))

\* clearHistory()
clearHistory(history) == << >>

\* removeFromHistory(id)
removeFromHistory(history, id) == SelectSeq(history, LAMBDA h : h.id # id)

HistoryCallOf(op, id, outputPath, dt) ==
  [op |-> op, id |-> id, outputPath |-> outputPath, dt |-> dt]

NewHistory == [done |-> 0, at |-> 0, history |-> << >>]

History == IF output.op = "none" THEN NewHistory ELSE output.arg

NextHistoryCall == input.arg[History.done + 1]

HistoryCall(op, history) ==
  /\ input.op = "history"
  /\ History.done < Len(input.arg)
  /\ NextHistoryCall.op = op
  /\ Commit([St EXCEPT !.output =
       Call(input.op, [done |-> History.done + 1,
                       at |-> History.at + NextHistoryCall.dt,
                       history |-> history])])

AddToHistory ==
  HistoryCall("add",
    addToHistory(History.history,
                 [id |-> NextHistoryCall.id,
                  outputPath |-> NextHistoryCall.outputPath,
                  timestamp |-> History.at + NextHistoryCall.dt,
                  call |-> History.done + 1]))

ClearHistory == HistoryCall("clear", clearHistory(History.history))

RemoveFromHistory ==
  HistoryCall("remove", removeFromHistory(History.history, NextHistoryCall.id))

\* Downloads 1, 2, ... each of a title of its own finish one after the
\* other, two more than the history holds
FinishedDownloads ==
  [n \in 1..(MAX_HISTORY_ITEMS + 2) |->
     HistoryCallOf("add", n, "/music/" \o ToString(n) \o ".mp3", n % 2)]

\* what may come between two of them: a download of a title that is in
\* the history (the oldest, the newest), a removal, a clearing
Interludes(n) ==
  {<< >>,
   <<HistoryCallOf("add", 100, "/music/1.mp3", 1)>>,
   <<HistoryCallOf("add", 100, "/music/" \o ToString(n) \o ".mp3", 0)>>,
   <<HistoryCallOf("add", 100, "/music/2.mp3", 0),
     HistoryCallOf("add", 101, "/music/2.mp3", 0)>>,
   <<HistoryCallOf("remove", 1, "", 1)>>,
   <<HistoryCallOf("remove", n, "", 1)>>,
   <<HistoryCallOf("remove", 100, "", 1)>>,
   <<HistoryCallOf("clear", 0, "", 1)>>}

HistoryScripts ==
  {SubSeq(FinishedDownloads, 1, n) \o between
     \o SubSeq(FinishedDownloads, n + 1, Len(FinishedDownloads)) :
     n \in {2, MAX_HISTORY_ITEMS - 1, MAX_HISTORY_ITEMS, MAX_HISTORY_ITEMS + 1,
            MAX_HISTORY_ITEMS + 2},
     between \in UNION {Interludes(m) : m \in {2, MAX_HISTORY_ITEMS - 1,
                          MAX_HISTORY_ITEMS, MAX_HISTORY_ITEMS + 1,
                          MAX_HISTORY_ITEMS + 2}}}

InitHistory ==
  InitCall({DefaultSettings}, {Call("history", s) : s \in HistoryScripts})

NextHistory ==
  \/ AddToHistory
  \/ ClearHistory
  \/ RemoveFromHistory

SpecHistory == InitHistory /\ [][NextHistory]_vars

\* C39: after every sequence of addToHistory, removeFromHistory and
\* clearHistory calls the history holds at most 50 items, no two of them
\* with the same outputPath, and the items stand in the order of their
\* addition, the latest first: the item added last, as long as it is
\* stored, is the first one, and right after addToHistory it is stored.
C39_HistoryBoundedUniqueNewestFirst ==
  output.op = "history" =>
    LET h == output.arg.history
        made == SubSeq(input.arg, 1, output.arg.done)
        adds == {n \in 1..Len(made) : made[n].op = "add"}
    IN /\ Len(h) <= 50
       /\ \A i \in 1..Len(h) : \A j \in 1..Len(h) :
            i # j => h[i].outputPath # h[j].outputPath
       /\ \A i \in 1..Len(h) : \A j \in 1..Len(h) :
            i < j => h[i].call > h[j].call
       /\ \A last \in adds :
            ((\A n \in adds : n <= last) /\ (\E i \in 1..Len(h) : h[i].call = last))
              => h[1].call = last
       /\ (made # << >> /\ made[Len(made)].op = "add")
            => /\ h # << >>
               /\ h[1].id = made[Len(made)].id
               /\ h[1].outputPath = made[Len(made)].outputPath
               /\ h[1].call = Len(made)

\* C39 witness: 51 downloads and a repeated one have been recorded; the
\* history holds 50 items, the repeated title first and once.
C39_Witness ==
  /\ output.op = "history"
  /\ output.arg.done = 52
  /\ input.arg[52] = HistoryCallOf("add", 100, "/music/2.mp3", 0)
  /\ Len(output.arg.history) = 50
  /\ output.arg.history[1].id = 100
  /\ output.arg.history[50].outputPath = "/music/3.mp3"

(***************************************************************************)
(* First-run setup (setup.ts, the setup IPC handlers, SetupProgress.tsx).  *)
(*                                                                         *)
(* output.arg is the state of the setup:                                   *)
(*   runs      the calls of downloadDependencies, each with the state of   *)
(*             its two download promises and whether it has returned       *)
(*   channel   what the main process has sent and the setup screen has not *)
(*             handled yet: 'setup:progress' events and replies to         *)
(*             'setup:download-dependencies', in the order sent            *)
(*   reported  the status last passed to onProgress for each dependency    *)
(*   mounted, steps, error, currentStep, percent, completionTimeout        *)
(*             the setup screen: its state and whether its 500 ms timer is *)
(*             set                                                         *)
(*   completed one entry for each call of onComplete: what had been        *)
(*             reported, and what the screen showed, at that moment        *)
(***************************************************************************)
MaxSetupRuns == 2
MaxProgressEvents == 1

Dependencies == {"yt-dlp", "ffmpeg"}

\* downloadFFmpegWithRetry reports 80% of the download's percentage, then 80
DownloadPercents(step) == IF step = "ffmpeg" THEN {40, 80} ELSE {50}

NewRun == [step \in Dependencies |-> [status |-> "running", events |-> 0]]
            @@ [returned |-> FALSE]

NewSteps == [step \in Dependencies |-> "pending"]

startSetup(u) == [u EXCEPT !.runs = Append(@, NewRun)]

\* the screen is mounted: useEffect has subscribed and called startSetup()
NewSetup ==
  startSetup([runs |-> << >>, channel |-> << >>,
              reported |-> [step \in Dependencies |-> "none"],
              mounted |-> TRUE, steps |-> NewSteps, error |-> "null",
              currentStep |-> "null", percent |-> 0,
              completionTimeout |-> FALSE, completed |-> << >>])

Setup == IF output.op = "none" THEN NewSetup ELSE output.arg

SetupStep(u) == Commit([St EXCEPT !.output = Call("setup", u)])

\* onProgress of the 'setup:download-dependencies' handler
onProgress(u, step, percent, status, error) ==
  [u EXCEPT !.reported[step] = status,
            !.channel = Append(@, [kind |-> "progress", step |-> step,
                                   percent |-> percent, status |-> status,
                                   error |-> error])]

\* a download reports progress
DownloadProgress(n, step) ==
  /\ input.op = "setup"
  /\ n \in DOMAIN Setup.runs
  /\ Setup.runs[n][step].status = "running"
  /\ Setup.runs[n][step].events < MaxProgressEvents
  /\ \E percent \in DownloadPercents(step) :
       SetupStep(onProgress([Setup EXCEPT !.runs[n][step].events = @ + 1],
                            step, percent, "downloading", "undefined"))

\* a download promise resolves and the binary is valid
DependencyComplete(n, step) ==
  /\ input.op = "setup"
  /\ n \in DOMAIN Setup.runs
  /\ Setup.runs[n][step].status = "running"
  /\ SetupStep(onProgress([Setup EXCEPT !.runs[n][step].status = "complete"],
                          step, 100, "complete", "undefined"))

\* a download promise rejects, or the binary is not valid
DependencyError(n, step) ==
  /\ input.op = "setup"
  /\ n \in DOMAIN Setup.runs
  /\ Setup.runs[n][step].status = "running"
  /\ \E message \in {step \o " binary validation failed"} :
       SetupStep(onProgress([Setup EXCEPT !.runs[n][step].status = "error"],
                            step, 0, "error", message))

\* Promise.allSettled(downloadPromises) resolves: downloadDependencies
\* returns, or throws if errors is not empty
AllSettled(n) ==
  /\ input.op = "setup"
  /\ n \in DOMAIN Setup.runs
  /\ ~Setup.runs[n].returned
  /\ \A step \in Dependencies : Setup.runs[n][step].status # "running"
  /\ LET failed == \E step \in Dependencies : Setup.runs[n][step].status = "error"
     IN SetupStep([Setup EXCEPT
          !.runs[n].returned = TRUE,
          !.channel = Append(@, [kind |-> IF failed THEN "rejected" ELSE "resolved",
                                 step |-> "", percent |-> 0, status |-> "",
                                 error |-> IF failed THEN "Failed to setup dependencies"
                                           ELSE "undefined"])])

\* the listener of onSetupProgress
onSetupProgress(u, progress) ==
  LET shown == [u EXCEPT !.currentStep = progress.step,
                         !.percent = progress.percent,
                         !.steps[progress.step] = progress.status,
                         !.error = IF progress.error # "undefined"
                                   THEN progress.error ELSE @]
  IN IF progress.step = "ffmpeg" /\ progress.status = "complete"
     THEN [shown EXCEPT !.completionTimeout = TRUE]
     ELSE shown

\* the screen handles what the main process sent first; after the unmount
\* the listener is gone and the state can no longer be set
Receive ==
  /\ input.op = "setup"
  /\ Setup.channel # << >>
  /\ LET m == Head(Setup.channel)
         u == [Setup EXCEPT !.channel = Tail(@)]
     IN SetupStep(
          IF ~u.mounted THEN u
          ELSE IF m.kind = "progress" THEN onSetupProgress(u, m)
          ELSE IF m.kind = "rejected" THEN [u EXCEPT !.error = m.error]
          ELSE u)

\* the 500 ms timer fires: onComplete (handleSetupComplete) runs and App
\* unmounts the setup screen
CompletionTimeout ==
  /\ input.op = "setup"
  /\ Setup.mounted
  /\ Setup.completionTimeout
  /\ SetupStep([Setup EXCEPT
       !.completed = Append(@, [reported |-> Setup.reported, steps |-> Setup.steps]),
       !.completionTimeout = FALSE,
       !.mounted = FALSE])

\* handleRetry, offered while an error is shown
handleRetry ==
  /\ input.op = "setup"
  /\ Setup.mounted
  /\ Setup.error # "null"
  /\ Len(Setup.runs) < MaxSetupRuns
  /\ SetupStep(startSetup([Setup EXCEPT !.error = "null", !.steps = NewSteps,
                                        !.percent = 0]))

InitSetup == InitCall({DefaultSettings}, {Call("setup", "first run")})

NextSetup ==
  \/ \E n \in 1..MaxSetupRuns : \E step \in Dependencies :
       \/ DownloadProgress(n, step)
       \/ DependencyComplete(n, step)
       \/ DependencyError(n, step)
  \/ \E n \in 1..MaxSetupRuns : AllSettled(n)
  \/ Receive
  \/ CompletionTimeout
  \/ handleRetry

SpecSetup == InitSetup /\ [][NextSetup]_vars

\* C40: whenever onComplete is called, the status last reported for yt-dlp
\* is 'complete', and so is the status the setup screen shows for it.
C40_CompleteOnlyWhenAllComplete ==
  output.op = "setup" =>
    \A n \in DOMAIN output.arg.completed :
      /\ output.arg.completed[n].reported["yt-dlp"] = "complete"
      /\ output.arg.completed[n].steps["yt-dlp"] = "complete"
====
